---- MODULE Spec2Model ----
(***************************************************************************)
(* Resumable batch orchestration of forensic-keystore-cracker:             *)
(* the session/task ledger of progress_manager.py (ProgressManager,        *)
(* BatchProgress, TaskProgress), its JSON session file, and the batch loop *)
(* of jks_privkey_processor.py that drives it.                             *)
(***************************************************************************)
EXTENDS Integers, Sequences, FiniteSets, TLC

(* ------------------------------ bounds --------------------------------- *)
\* seconds into a calendar day that the clock is followed
MaxSecs == 10
\* last calendar day explored (the first process starts on day 1)
MaxDay == 2
\* parts of the document that reach the file in one flush of the write buffer
ChunkLen == 2
\* cap on the transition calls applied to one session: its attempts and
\* counters are unbounded ints in the code
MaxCalls == 3
\* session ids derived in one exploration of generate_session_id
MaxDerivations == 2
\* targets handed to a worker pool, and workers of the pool
MaxTargets == 3
MaxWorkers == 2
\* longest time, in seconds, an engine process is watched
MaxWait == 1200
\* most hashes one run_batch_crack gets
MaxHashes == 2
\* most termination signals one process receives
MaxSignals == 2
\* longest status line, in tokens
MaxLineLen == 5
\* most runs of the batch workflow
MaxRuns == 2
\* most lines the engine writes to its standard output
MaxOutput == 3
\* most keystores in one batch hash file
MaxKeystores == 3

(* ------------------------- program constants --------------------------- *)
\* ProgressManager.auto_save_interval
auto_save_interval == 10
\* calendar day length used by datetime.now().strftime('%Y%m%d')
SecondsPerDay == 86400
\* time.time() when the first process starts: midnight of day 1, which is
\* more than auto_save_interval after last_save_time = 0
StartTime == SecondsPerDay

(* keystore files found by scan_keystore_files, sorted *)
FileList == <<"A", "B">>
\* what successive scans of the target directory can find: the directory is
\* scanned anew on every run, and files come and go between runs
FileLists == {<<"A">>, <<"A", "B">>}
Files == {"A", "B"}
\* a path that is in no session
Unknown == "Z"
TargetPath == "dir"
Mask == "?a?a?a?a?a?a"
Mode == "privkey"

\* Python None for Optional[str] fields
None == "None"
\* the payloads a caller passes
Password == "pw"
ErrorMsg == "err"

VARIABLES
    now,              \* time.time()
    current_session,  \* ProgressManager.current_session
    last_save_time,   \* ProgressManager.last_save_time
    disk,             \* progress/{session_id}.json, per session id
    writing,          \* the file handle open inside save_session
    ret,              \* return value of the last ProgressManager call
    console,          \* error line the last call printed on the console
    readerSaw,        \* what a second process saw when it loaded a session file
    crashed,          \* what the previous process held in memory when it stopped
    pending_tasks,    \* process_directory: snapshot returned by get_pending_tasks
    procpc,           \* process_directory: position in the batch loop
    derived,          \* the generate_session_id calls made so far, with results
    poolpc,           \* worker pool run: "idle", "running", "done", "raised"
    pool_kind,        \* "imap_unordered" (Pool) or "as_completed" (executor)
    pool_tasks,       \* the tasks list handed to the pool
    fn_raises,        \* the tasks whose extraction raises, times out or fails
    num_workers,      \* processes / threads of the pool
    taskq,            \* chunks of tasks no worker has taken yet
    worker,           \* per worker: rest of its chunk, results it holds
    outq,             \* results put by workers, not yet yielded to the loop
    complete_results, \* process_all_results_parallel: collected results
    successful_hashes,\* batch_extract_hashes: collected successes
    failed_files,     \* batch_extract_hashes: stats['failed_files']
    enginepc,         \* engine launch: "idle", "running", "returned"
    launcher,         \* the function that launched the engine
    returncode,       \* exit code of the engine process, None while it runs
    cracked,          \* a recovered password is in the output / potfile
    elapsed,          \* seconds the launcher has waited for the engine
    child_alive,      \* the engine process exists
    engine_ret,       \* what the launcher returned
    engine_console,   \* outcome line the launcher printed
    engine_prev,      \* launcher, exit code and return value of the run before
    last_result,      \* process_directory: dict process_single_keystore returned
    loop_tasks,       \* process_directory: the pending tasks its loop started with
    disk_fails,       \* open(session_file, 'w') raises (no permission, no space)
    gpupc,            \* run_batch_crack: position of the main thread
    hash_list,        \* run_batch_crack: the hashes not yet handled
    stop_flag,        \* GPUHashcatCracker.stop_flag
    running_sessions, \* GPUHashcatCracker.running_sessions (its processes)
    proc,             \* every engine process spawned so far, with its state
    signals,          \* SIGINT / SIGTERM deliveries so far
    cancel_calls,     \* per process, the calls the last stop_all_sessions made
    attacks,          \* crack_single_hash: the attacks prepared so far, in order
    session_files,    \* sessions/{session_name}.session files of interrupted runs
    status_line,      \* the engine output line read so far
    parsed_status,    \* what parse_hashcat_status returned for status_line
    mtime,            \* st_mtime of progress/{session_id}.json, per session id
    cutoff_time,      \* cleanup_completed_sessions: cutoff_time of the last call
    runpc,            \* UltimateBatchCracker.run: position in the workflow
    steps,            \* UltimateBatchCracker.steps
    started,          \* the steps this run has called, in order
    step_ret,         \* what each step of this run returned
    summary_shown,    \* show_final_summary was called in this run
    run_ret,          \* what run returned
    batch_hash_file,  \* all_keystores.hash exists
    potfile,          \* batch_results.potfile: exists, and the lines it holds
    runs,             \* runs of ultimate_batch_cracker.py so far
    monpc,            \* monitor_hashcat_process: position in the loop
    monproc,          \* the watched engine process: "none", "running", "exited"
    pipe,             \* process.stdout: lines written and not yet read
    written,          \* every line the engine has written to stdout
    offered,          \* the lines given to parse_hashcat_status, in order
    last_status,      \* monitor_hashcat_process: last_status
    mon_end,          \* why the loop ended: "none", "exited", "stopped", "cracked"
    sinkpc,           \* batch analysis: "idle", "cracking", "analyzed"
    mapping_data,     \* uuid_hash_mapping.json: per hash index, uuid and hash
    pot_lines,        \* batch_results.potfile: its lines, in order
    reported          \* what read_potfile_results returned: uuid to password

idVars == <<derived>>
poolVars == <<poolpc, pool_kind, pool_tasks, fn_raises, num_workers, taskq,
              worker, outq, complete_results, successful_hashes, failed_files>>
engineVars == <<enginepc, launcher, returncode, cracked, elapsed, child_alive,
                engine_ret, engine_console, engine_prev>>
\* the state of the file system under the progress directory
faultVars == <<disk_fails>>
gpuVars == <<gpupc, hash_list, stop_flag, running_sessions, proc, signals,
             cancel_calls>>
nameVars == <<attacks, session_files>>
parseVars == <<status_line, parsed_status>>
\* modification times of the session files and the last cleanup's cutoff
gcVars == <<mtime, cutoff_time>>
\* the variables the progress ledger never touches
\* the state of UltimateBatchCracker.run and the files it works on
runVars == <<runpc, steps, started, step_ret, summary_shown, run_ret,
    batch_hash_file, potfile, runs>>
\* the state of monitor_hashcat_process and of the engine it watches
monVars == <<monpc, monproc, pipe, written, offered, last_status, mon_end>>
\* the batch hash file's mapping, the batch potfile and the analyzer's results
sinkVars == <<sinkpc, mapping_data, pot_lines, reported>>
auxVars == <<idVars, poolVars, engineVars, faultVars, gpuVars, nameVars,
    parseVars, gcVars, runVars, monVars, sinkVars>>
\* the variables only the batch loop of process_directory sets
loopVars == <<last_result, loop_tasks>>
\* the variables of the progress ledger, except the clock
ledgerVars == <<current_session, last_save_time, disk, writing, ret, console,
                readerSaw, crashed, pending_tasks, procpc, loopVars>>
\* what the session id derivation, the pools and the engine launches leave alone
nonIdVars == <<now, ledgerVars, poolVars, engineVars, faultVars, gpuVars,
    nameVars, parseVars, gcVars, runVars, monVars, sinkVars>>
nonPoolVars == <<now, ledgerVars, idVars, engineVars, faultVars, gpuVars,
    nameVars, parseVars, gcVars, runVars, monVars, sinkVars>>
nonEngineVars == <<now, ledgerVars, idVars, poolVars, faultVars, gpuVars,
    nameVars, parseVars, gcVars, runVars, monVars, sinkVars>>
nonFaultVars == <<now, ledgerVars, idVars, poolVars, engineVars, gpuVars,
    nameVars, parseVars, gcVars, runVars, monVars, sinkVars>>
nonGpuVars == <<now, ledgerVars, idVars, poolVars, engineVars, faultVars,
    nameVars, parseVars, gcVars, runVars, monVars, sinkVars>>
nonNameVars == <<ledgerVars, idVars, poolVars, engineVars, faultVars, gpuVars,
    parseVars, gcVars, runVars, monVars, sinkVars>>
nonParseVars == <<now, ledgerVars, idVars, poolVars, engineVars, faultVars,
    gpuVars, nameVars, gcVars, runVars, monVars, sinkVars>>
nonGcVars == <<now, ledgerVars, idVars, poolVars, engineVars, faultVars,
    gpuVars, nameVars, parseVars, runVars, monVars, sinkVars>>
\* what a ProgressManager call that writes a session file leaves alone
nonLedgerGcVars == <<idVars, poolVars, engineVars, faultVars, gpuVars,
    nameVars, parseVars, runVars, monVars, sinkVars>>
nonRunVars == <<now, ledgerVars, idVars, poolVars, engineVars, faultVars,
    gpuVars, nameVars, parseVars, gcVars, monVars, sinkVars>>
nonMonVars == <<now, ledgerVars, idVars, poolVars, engineVars, faultVars,
    gpuVars, nameVars, parseVars, gcVars, runVars, sinkVars>>
nonSinkVars == <<now, ledgerVars, idVars, poolVars, engineVars, faultVars,
    gpuVars, nameVars, parseVars, gcVars, runVars, monVars>>

vars == <<now, ledgerVars, auxVars>>

(* ----------------------------- data model ------------------------------ *)
\* TaskProgress(file_path=..., status="pending") with the dataclass defaults.
\* The time stamps, duration and certificate fields are written next to
\* password by the same assignments and read by no transition; they are left
\* out, as is estimated_completion of BatchProgress.
TaskProgress(file_path) ==
    [file_path |-> file_path, status |-> "pending", password |-> None,
     error_message |-> None, attempts |-> 0]

Statuses == {"pending", "processing", "completed", "failed", "skipped"}
Terminal == {"completed", "failed", "skipped"}

\* the calendar day datetime.now() falls in
Day(t) == t \div SecondsPerDay

\* a derivation that hashes the clock reading itself, not its date
generate_session_id_clock(target_path, mask, mode, t) ==
    <<target_path, mask, mode, t>>

\* generate_session_id: md5(target_mask_mode_YYYYMMDD)[:12]; the digest is
\* modelled as an injective function of the string it hashes
generate_session_id(target_path, mask, mode, t) ==
    <<target_path, mask, mode, Day(t)>>

NoId == <<>>
SessionIds == {generate_session_id(TargetPath, Mask, Mode, d * SecondsPerDay) :
                  d \in Day(StartTime)..MaxDay}

\* self.current_session = None
NoSession ==
    [session_id |-> NoId, target_path |-> None, mask |-> None, mode |-> None,
     total_files |-> 0, completed_files |-> 0, failed_files |-> 0,
     skipped_files |-> 0, tasks |-> <<>>]

\* BatchProgress(...) as create_session builds it, tasks appended in order
BatchProgress(session_id, target_path, mask, mode, file_list) ==
    [session_id |-> session_id, target_path |-> target_path, mask |-> mask,
     mode |-> mode, total_files |-> Len(file_list), completed_files |-> 0,
     failed_files |-> 0, skipped_files |-> 0,
     tasks |-> [i \in 1..Len(file_list) |-> TaskProgress(file_list[i])]]

(* --------------------------- the session file -------------------------- *)
\* json.dump(self.current_session.to_dict()): the scalar fields first, then
\* one object per task, then the closing brackets
to_dict(s) ==
    <<[kind |-> "hdr",
       v |-> [session_id |-> s.session_id, target_path |-> s.target_path,
              mask |-> s.mask, mode |-> s.mode, total_files |-> s.total_files,
              completed_files |-> s.completed_files,
              failed_files |-> s.failed_files,
              skipped_files |-> s.skipped_files]]>>
    \o [i \in 1..Len(s.tasks) |-> [kind |-> "task", v |-> s.tasks[i]]]
    \o <<[kind |-> "end", v |-> <<>>]>>

\* json.load succeeds only on a complete document
WellFormed(data) ==
    /\ Len(data) >= 2
    /\ data[1].kind = "hdr"
    /\ data[Len(data)].kind = "end"
    /\ \A i \in 2..(Len(data) - 1) : data[i].kind = "task"

\* BatchProgress.from_dict(json.load(f))
from_dict(data) ==
    [session_id |-> data[1].v.session_id, target_path |-> data[1].v.target_path,
     mask |-> data[1].v.mask, mode |-> data[1].v.mode,
     total_files |-> data[1].v.total_files,
     completed_files |-> data[1].v.completed_files,
     failed_files |-> data[1].v.failed_files,
     skipped_files |-> data[1].v.skipped_files,
     tasks |-> [i \in 1..(Len(data) - 2) |-> data[i + 1].v]]

\* nothing remembered of an earlier process
NoCrash == [sid |-> NoId, k |-> 0]

NoFile == [exists |-> FALSE, data |-> <<>>]
NoWrite == [sid |-> NoId, rest |-> <<>>]

\* a load_session that keeps what it could read of a truncated document
load_session_lenient(session_id) ==
    IF ~disk[session_id].exists \/ disk[session_id].data = <<>> THEN NoSession
    ELSE [session_id |-> disk[session_id].data[1].v.session_id,
          target_path |-> disk[session_id].data[1].v.target_path,
          mask |-> disk[session_id].data[1].v.mask,
          mode |-> disk[session_id].data[1].v.mode,
          total_files |-> disk[session_id].data[1].v.total_files,
          completed_files |-> disk[session_id].data[1].v.completed_files,
          failed_files |-> disk[session_id].data[1].v.failed_files,
          skipped_files |-> disk[session_id].data[1].v.skipped_files,
          tasks |-> [i \in 1..Cardinality({j \in 2..Len(disk[session_id].data) :
                                              disk[session_id].data[j].kind = "task"})
                       |-> disk[session_id].data[i + 1].v]]

\* load_session: None when the file is missing or json.load / from_dict raises
load_session(session_id) ==
    IF ~disk[session_id].exists THEN NoSession
    ELSE IF WellFormed(disk[session_id].data)
         THEN from_dict(disk[session_id].data)
         ELSE NoSession

\* load_session took the except branch and printed the load error
LoadFails(session_id) ==
    disk[session_id].exists /\ ~WellFormed(disk[session_id].data)

\* save_session: open(session_file, 'w') truncates the file, json.dump then
\* writes the document through the open handle; when open raises, the except
\* branch prints the error and the file is as it was
save_session(s) ==
    IF s = NoSession \/ disk_fails
    THEN UNCHANGED <<disk, writing>>
    ELSE /\ disk' = [disk EXCEPT ![s.session_id] = [exists |-> TRUE, data |-> <<>>]]
         /\ writing' = [sid |-> s.session_id, rest |-> to_dict(s)]

\* _auto_save: save only when auto_save_interval seconds passed since the last
_auto_save(s) ==
    IF now - last_save_time >= auto_save_interval
    THEN save_session(s) /\ last_save_time' = now
    ELSE UNCHANGED <<disk, writing, last_save_time>>

\* what save_session prints: the save error when open raised
SaveNotice(s) == IF s # NoSession /\ disk_fails THEN "save_failed" ELSE ""

\* what a transition prints: the save error of the save _auto_save made
AutoSaveNotice(s) ==
    IF now - last_save_time >= auto_save_interval THEN SaveNotice(s) ELSE ""

\* the process is not inside save_session
Idle == writing = NoWrite

\* a get_task_by_path that falls back to the first task when none matches
get_task_by_path_first(s, file_path) ==
    IF \E i \in 1..Len(s.tasks) : s.tasks[i].file_path = file_path
    THEN CHOOSE i \in 1..Len(s.tasks) :
            /\ s.tasks[i].file_path = file_path
            /\ \A j \in 1..(i - 1) : s.tasks[j].file_path # file_path
    ELSE IF s.tasks = <<>> THEN 0 ELSE 1

\* get_task_by_path: index of the first task with that path, 0 for None
get_task_by_path(s, file_path) ==
    IF \E i \in 1..Len(s.tasks) : s.tasks[i].file_path = file_path
    THEN CHOOSE i \in 1..Len(s.tasks) :
            /\ s.tasks[i].file_path = file_path
            /\ \A j \in 1..(i - 1) : s.tasks[j].file_path # file_path
    ELSE 0

\* get_pending_tasks: the pending tasks in insertion order
RECURSIVE PendingOf(_)
PendingOf(tasks) ==
    IF tasks = <<>> THEN <<>>
    ELSE IF Head(tasks).status = "pending"
         THEN <<Head(tasks).file_path>> \o PendingOf(Tail(tasks))
         ELSE PendingOf(Tail(tasks))

get_pending_tasks(s) == PendingOf(s.tasks)

Processed(s) == s.completed_files + s.failed_files + s.skipped_files

\* process_single_keystore has not returned in this process
NoResult == [file |-> None, success |-> FALSE, password |-> None,
             alias |-> None, error |-> None]
\* the alias extract_simple_info returns when the extraction failed (the
\* source's placeholder string, written here in ASCII)
Placeholder == "unknown"
\* a pool worker that holds no chunk
IdleWorker == [chunk |-> <<>>, results |-> <<>>]
\* process.poll() of an engine process that has not exited; the model writes
\* the None it returns as a number no process exits with
NotExited == 0 - 1
\* no engine run has returned yet
NoRun == [launcher |-> None, returncode |-> NotExited, ret |-> None]

(* ------------------------------ operations ----------------------------- *)
Init ==
    /\ now = StartTime
    /\ current_session = NoSession
    /\ last_save_time = 0
    /\ disk = [sid \in SessionIds |-> NoFile]
    /\ writing = NoWrite
    /\ ret = None
    /\ console = ""
    /\ readerSaw = "nothing"
    /\ crashed = NoCrash
    /\ pending_tasks = <<>>
    /\ procpc = "idle"
    /\ derived = <<>>
    /\ poolpc = "idle"
    /\ pool_kind = None
    /\ pool_tasks = <<>>
    /\ fn_raises = {}
    /\ num_workers = 0
    /\ taskq = <<>>
    /\ worker = [w \in 1..MaxWorkers |-> IdleWorker]
    /\ outq = <<>>
    /\ complete_results = <<>>
    /\ successful_hashes = <<>>
    /\ failed_files = <<>>
    /\ enginepc = "idle"
    /\ launcher = None
    /\ returncode = NotExited
    /\ cracked = FALSE
    /\ elapsed = 0
    /\ child_alive = FALSE
    /\ engine_ret = None
    /\ engine_console = ""
    /\ engine_prev = NoRun
    /\ last_result = NoResult
    /\ loop_tasks = <<>>
    /\ disk_fails = FALSE
    /\ gpupc = "idle"
    /\ hash_list = <<>>
    /\ stop_flag = FALSE
    /\ running_sessions = {}
    /\ proc = <<>>
    /\ signals = 0
    /\ cancel_calls = <<>>
    /\ attacks = <<>>
    /\ session_files = {}
    /\ status_line = <<>>
    /\ parsed_status = [kind |-> "unparsed"]
    /\ mtime = [sid \in SessionIds |-> 0]
    /\ cutoff_time = 0
    /\ runpc = "idle"
    /\ steps = [hash_extraction |-> FALSE, gpu_cracking |-> FALSE, result_analysis |-> FALSE]
    /\ started = <<>>
    /\ step_ret = [s \in {"step1", "step2", "step3"} |-> "none"]
    /\ summary_shown = FALSE
    /\ run_ret = "none"
    /\ batch_hash_file = FALSE
    /\ potfile = [exists |-> FALSE, lines |-> {}]
    /\ runs = 0
    /\ monpc = "idle"
    /\ monproc = "none"
    /\ pipe = <<>>
    /\ written = <<>>
    /\ offered = <<>>
    /\ last_status = [kind |-> "empty"]
    /\ mon_end = "none"
    /\ sinkpc = "idle"
    /\ mapping_data = <<>>
    /\ pot_lines = <<>>
    /\ reported = <<>>

\* what create_session prints about the file it looked for: the load error,
\* the notice that an unfinished session was found, or neither
CreateNotice(session_id) ==
    IF LoadFails(session_id) THEN "load_failed"
    ELSE IF load_session(session_id) # NoSession THEN "found"
    ELSE ""

\* a create_session that builds the fresh session and returns without saving
create_session_nosave(file_list, confirm) ==
    LET session_id == generate_session_id(TargetPath, Mask, Mode, now)
        existing_session == load_session(session_id)
    IN  /\ current_session' =
               IF existing_session # NoSession /\ confirm
               THEN existing_session
               ELSE BatchProgress(session_id, TargetPath, Mask, Mode, file_list)
        /\ UNCHANGED <<disk, writing>>
        /\ console' = CreateNotice(session_id)

\* create_session(target_path, mask, mode, file_list); confirm is the answer
\* _confirm_resume gets
create_session(file_list, confirm) ==
    LET session_id == generate_session_id(TargetPath, Mask, Mode, now)
        existing_session == load_session(session_id)
    IN  /\ IF existing_session # NoSession /\ confirm
           THEN /\ current_session' = existing_session
                /\ UNCHANGED <<disk, writing>>
           ELSE /\ current_session' =
                       BatchProgress(session_id, TargetPath, Mask, Mode, file_list)
                /\ save_session(current_session')
        /\ console' = IF (existing_session # NoSession /\ confirm)
                          \/ SaveNotice(current_session') = ""
                       THEN CreateNotice(session_id)
                       ELSE SaveNotice(current_session')

CreateSession(confirm) ==
    /\ Idle
    /\ procpc = "idle"
    /\ create_session(FileList, confirm)
    /\ ret' = "session_id"
    /\ crashed' = NoCrash
    /\ UNCHANGED <<now, last_save_time, readerSaw, pending_tasks, procpc>>
    /\ UNCHANGED <<auxVars, loopVars>>

\* start_task(file_path)
start_task(file_path) ==
    LET i == get_task_by_path(current_session, file_path)
    IN  IF i = 0
        THEN /\ ret' = "False"
             /\ console' = ""
             /\ UNCHANGED <<current_session, disk, writing, last_save_time>>
        ELSE /\ current_session' =
                    [current_session EXCEPT
                        !.tasks[i].status = "processing",
                        !.tasks[i].attempts = @ + 1]
             /\ _auto_save(current_session')
             /\ console' = AutoSaveNotice(current_session')
             /\ ret' = "True"

\* complete_task(file_path, password, duration, ...)
complete_task(file_path, password) ==
    LET i == get_task_by_path(current_session, file_path)
    IN  IF i = 0
        THEN /\ ret' = "False"
             /\ console' = ""
             /\ UNCHANGED <<current_session, disk, writing, last_save_time>>
        ELSE /\ current_session' =
                    [current_session EXCEPT
                        !.tasks[i].status = "completed",
                        !.tasks[i].password = password,
                        !.completed_files = @ + 1]
             /\ _auto_save(current_session')
             /\ console' = AutoSaveNotice(current_session')
             /\ ret' = "True"

\* fail_task(file_path, error_message)
fail_task(file_path, error_message) ==
    LET i == get_task_by_path(current_session, file_path)
    IN  IF i = 0
        THEN /\ ret' = "False"
             /\ console' = ""
             /\ UNCHANGED <<current_session, disk, writing, last_save_time>>
        ELSE /\ current_session' =
                    [current_session EXCEPT
                        !.tasks[i].status = "failed",
                        !.tasks[i].error_message = error_message,
                        !.failed_files = @ + 1]
             /\ _auto_save(current_session')
             /\ console' = AutoSaveNotice(current_session')
             /\ ret' = "True"

\* skip_task(file_path, reason)
skip_task(file_path, reason) ==
    LET i == get_task_by_path(current_session, file_path)
    IN  IF i = 0
        THEN /\ ret' = "False"
             /\ console' = ""
             /\ UNCHANGED <<current_session, disk, writing, last_save_time>>
        ELSE /\ current_session' =
                    [current_session EXCEPT
                        !.tasks[i].status = "skipped",
                        !.tasks[i].error_message = reason,
                        !.skipped_files = @ + 1]
             /\ _auto_save(current_session')
             /\ console' = AutoSaveNotice(current_session')
             /\ ret' = "True"

\* attempts summed over the first n tasks of s
RECURSIVE SumAttempts(_, _)
SumAttempts(s, n) ==
    IF n = 0 THEN 0 ELSE s.tasks[n].attempts + SumAttempts(s, n - 1)

\* the transition calls a session has taken: every start_task adds one to an
\* attempts field, every terminal call adds one to a counter
Calls(s) == SumAttempts(s, Len(s.tasks)) + Processed(s)

\* the call on file_path may still count within the bound
BelowCap(file_path) ==
    get_task_by_path(current_session, file_path) # 0
        => Calls(current_session) < MaxCalls

\* a caller of the ledger API calls start_task in any state
StartTask(file_path) ==
    /\ Idle /\ procpc = "idle"
    /\ BelowCap(file_path)
    /\ start_task(file_path)
    /\ UNCHANGED <<now, readerSaw, crashed, pending_tasks, procpc>>
    /\ UNCHANGED <<auxVars, loopVars>>

CompleteTask(file_path) ==
    /\ Idle /\ procpc = "idle"
    /\ BelowCap(file_path)
    /\ complete_task(file_path, Password)
    /\ UNCHANGED <<now, readerSaw, crashed, pending_tasks, procpc>>
    /\ UNCHANGED <<auxVars, loopVars>>

FailTask(file_path) ==
    /\ Idle /\ procpc = "idle"
    /\ BelowCap(file_path)
    /\ fail_task(file_path, ErrorMsg)
    /\ UNCHANGED <<now, readerSaw, crashed, pending_tasks, procpc>>
    /\ UNCHANGED <<auxVars, loopVars>>

SkipTask(file_path) ==
    /\ Idle /\ procpc = "idle"
    /\ BelowCap(file_path)
    /\ skip_task(file_path, ErrorMsg)
    /\ UNCHANGED <<now, readerSaw, crashed, pending_tasks, procpc>>
    /\ UNCHANGED <<auxVars, loopVars>>

\* json.dump writes the next part of the document; the with-block closes the
\* file after the last part
WriteChunk ==
    /\ writing # NoWrite
    /\ LET n == IF Len(writing.rest) < ChunkLen THEN Len(writing.rest) ELSE ChunkLen
       IN  /\ disk' = [disk EXCEPT ![writing.sid].data =
                                       @ \o SubSeq(writing.rest, 1, n)]
           /\ writing' = IF n = Len(writing.rest) THEN NoWrite
                         ELSE [writing EXCEPT
                                 !.rest = SubSeq(@, n + 1, Len(@))]
    /\ UNCHANGED <<now, current_session, last_save_time, ret, console,
                   readerSaw, crashed, pending_tasks, procpc>>
    /\ UNCHANGED <<auxVars, loopVars>>

\* number of tasks of s in a terminal status
TerminalCount(s) ==
    Cardinality({i \in 1..Len(s.tasks) : s.tasks[i].status \in Terminal})

\* the process stops (crash, Ctrl-C, exit) at any point, also inside
\* save_session, and a new process constructs ProgressManager()
Restart ==
    /\ current_session' = NoSession
    /\ last_save_time' = 0
    /\ writing' = NoWrite
    /\ ret' = None
    /\ console' = ""
    /\ crashed' = IF current_session = NoSession THEN crashed
                  ELSE [sid |-> current_session.session_id,
                        k |-> TerminalCount(current_session)]
    /\ pending_tasks' = <<>>
    /\ procpc' = "idle"
    /\ UNCHANGED <<now, disk, readerSaw>>
    /\ loop_tasks' = <<>>
    /\ last_result' = NoResult
    /\ UNCHANGED auxVars

\* another process (list_sessions of a second instance) loads a session file
Reader(session_id) ==
    /\ readerSaw' = IF ~disk[session_id].exists THEN "missing"
                    ELSE IF load_session(session_id) = NoSession THEN "unreadable"
                    ELSE "session"
    /\ UNCHANGED <<now, current_session, last_save_time, disk, writing, ret,
                   console, crashed, pending_tasks, procpc>>
    /\ UNCHANGED <<auxVars, loopVars>>

\* auto_save_interval seconds pass
Tick ==
    /\ (now % SecondsPerDay) + auto_save_interval <= MaxSecs
    /\ now' = now + auto_save_interval
    /\ UNCHANGED <<current_session, last_save_time, disk, writing, ret,
                   console, readerSaw, crashed, pending_tasks, procpc>>
    /\ UNCHANGED <<auxVars, loopVars>>

\* a calendar day passes
NextDay ==
    /\ Day(now) < MaxDay
    /\ now' = now + SecondsPerDay
    /\ UNCHANGED <<current_session, last_save_time, disk, writing, ret,
                   console, readerSaw, crashed, pending_tasks, procpc>>
    /\ UNCHANGED <<auxVars, loopVars>>

(* ------------------- jks_privkey_processor.py batch loop ---------------- *)
\* process_directory up to the loop: scan, create_session, get_pending_tasks;
\* with nothing pending it returns the summary at once
process_directory(file_list, confirm) ==
    /\ create_session(file_list, confirm)
    /\ pending_tasks' = get_pending_tasks(current_session')
    /\ procpc' = IF pending_tasks' = <<>> THEN "idle" ELSE "loop"
    /\ ret' = "session_id"
    /\ crashed' = NoCrash
    /\ UNCHANGED <<now, last_save_time, readerSaw>>
    /\ loop_tasks' = pending_tasks'
    /\ last_result' = NoResult
    /\ UNCHANGED auxVars

ProcessDirectory(file_list, confirm) ==
    /\ Idle /\ procpc = "idle"
    /\ process_directory(file_list, confirm)

\* resume_session(session_id): load it, make it current, run process_directory
\* on its target_path and mask
ResumeSession(session_id, file_list, confirm) ==
    /\ Idle /\ procpc = "idle"
    /\ LET session == load_session(session_id)
       IN  IF session = NoSession
           THEN /\ ret' = None
                /\ console' = IF LoadFails(session_id) THEN "load_failed"
                              ELSE "not_found"
                /\ crashed' = NoCrash
                /\ UNCHANGED <<now, current_session, last_save_time, disk,
                               writing, readerSaw, pending_tasks, procpc>>
                /\ UNCHANGED <<auxVars, loopVars>>
           ELSE process_directory(file_list, confirm)

\* loop body, first half: start_task(task.file_path), then the cracking runs
LoopStart ==
    /\ Idle /\ procpc = "loop" /\ pending_tasks # <<>>
    /\ start_task(Head(pending_tasks))
    /\ procpc' = "cracking"
    /\ UNCHANGED <<now, readerSaw, crashed, pending_tasks>>
    /\ UNCHANGED <<auxVars, loopVars>>

\* process_single_keystore with extract_simple_info raising instead of
\* returning its placeholders: the exception is reported as a failed task
process_single_keystore_strict(file_path, has_password, info_ok) ==
    IF has_password /\ info_ok
    THEN [file |-> file_path, success |-> TRUE, password |-> Password,
          alias |-> "alias", error |-> None]
    ELSE [file |-> file_path, success |-> FALSE, password |-> None,
          alias |-> None, error |-> ErrorMsg]

\* process_single_keystore: without a hash or a cracked password the error
\* dict; with a password the success dict, whose alias and fingerprints are
\* what extract_simple_info returned -- its placeholders when the extraction
\* failed
process_single_keystore(file_path, has_password, info_ok) ==
    IF has_password
    THEN [file |-> file_path, success |-> TRUE, password |-> Password,
          alias |-> IF info_ok THEN "alias" ELSE Placeholder, error |-> None]
    ELSE [file |-> file_path, success |-> FALSE, password |-> None,
          alias |-> None, error |-> ErrorMsg]

\* a loop that stops at the first task that fails
LoopEnd_aborting(has_password, info_ok) ==
    /\ Idle /\ procpc = "cracking"
    /\ last_result' = process_single_keystore(Head(pending_tasks),
                                              has_password, info_ok)
    /\ IF last_result'.success
       THEN complete_task(Head(pending_tasks), last_result'.password)
       ELSE fail_task(Head(pending_tasks), last_result'.error)
    /\ pending_tasks' = IF last_result'.success THEN Tail(pending_tasks) ELSE <<>>
    /\ procpc' = "loop"
    /\ UNCHANGED <<now, readerSaw, crashed, loop_tasks>>
    /\ UNCHANGED auxVars

\* loop body, second half: process_single_keystore returned; complete_task on
\* success, fail_task otherwise
LoopEnd(has_password, info_ok) ==
    /\ Idle /\ procpc = "cracking"
    /\ last_result' = process_single_keystore(Head(pending_tasks),
                                              has_password, info_ok)
    /\ IF last_result'.success
       THEN complete_task(Head(pending_tasks), last_result'.password)
       ELSE fail_task(Head(pending_tasks), last_result'.error)
    /\ pending_tasks' = Tail(pending_tasks)
    /\ procpc' = "loop"
    /\ UNCHANGED <<now, readerSaw, crashed, loop_tasks>>
    /\ UNCHANGED auxVars

\* after the loop: the final save_session(), then the summary is returned
FinalSave ==
    /\ Idle /\ procpc = "loop" /\ pending_tasks = <<>>
    /\ save_session(current_session)
    /\ console' = IF SaveNotice(current_session) = "" THEN console
                  ELSE SaveNotice(current_session)
    /\ procpc' = "idle"
    /\ UNCHANGED <<now, current_session, last_save_time, ret,
                   readerSaw, crashed, pending_tasks>>
    /\ UNCHANGED <<auxVars, loopVars>>

Next ==
    \/ \E confirm \in BOOLEAN : CreateSession(confirm)
    \/ \E f \in Files \cup {Unknown} : StartTask(f)
    \/ \E f \in Files \cup {Unknown} : CompleteTask(f)
    \/ \E f \in Files \cup {Unknown} : FailTask(f)
    \/ \E f \in Files \cup {Unknown} : SkipTask(f)
    \/ WriteChunk
    \/ Restart
    \/ Tick

Spec == Init /\ [][Next]_vars

\* the progress directory becomes unwritable, or writable again
DiskFault ==
    /\ disk_fails' = ~disk_fails
    /\ UNCHANGED nonFaultVars

\* the ledger API of one process over a progress directory that is not always
\* writable
NextFault ==
    \/ \E confirm \in BOOLEAN : CreateSession(confirm)
    \/ \E f \in Files \cup {Unknown} : StartTask(f)
    \/ \E f \in Files \cup {Unknown} : CompleteTask(f)
    \/ \E f \in Files \cup {Unknown} : FailTask(f)
    \/ \E f \in Files \cup {Unknown} : SkipTask(f)
    \/ WriteChunk
    \/ Tick
    \/ DiskFault

SpecFault == Init /\ [][NextFault]_vars

\* the ledger API with a second process that reads the session files
NextRead ==
    \/ \E sid \in SessionIds : Reader(sid)
    \/ \E confirm \in BOOLEAN : CreateSession(confirm)
    \/ \E f \in Files \cup {Unknown} : StartTask(f)
    \/ \E f \in Files \cup {Unknown} : CompleteTask(f)
    \/ \E f \in Files \cup {Unknown} : FailTask(f)
    \/ \E f \in Files \cup {Unknown} : SkipTask(f)
    \/ WriteChunk
    \/ Restart
    \/ Tick

SpecRead == Init /\ [][NextRead]_vars

NextProc ==
    \/ \E sid \in SessionIds, file_list \in FileLists, confirm \in BOOLEAN :
          ResumeSession(sid, file_list, confirm)
    \/ \E file_list \in FileLists, confirm \in BOOLEAN :
          ProcessDirectory(file_list, confirm)
    \/ LoopStart
    \/ \E has_password, info_ok \in BOOLEAN : LoopEnd(has_password, info_ok)
    \/ FinalSave
    \/ WriteChunk
    \/ Restart
    \/ Tick
    \/ NextDay

SpecProc == Init /\ [][NextProc]_vars

\* process_directory run again and again by processes of one calendar day
NextLoop ==
    \/ \E file_list \in FileLists, confirm \in BOOLEAN :
            ProcessDirectory(file_list, confirm)
    \/ LoopStart
    \/ \E has_password, info_ok \in BOOLEAN : LoopEnd(has_password, info_ok)
    \/ FinalSave
    \/ WriteChunk
    \/ Restart
    \/ Tick

SpecLoop == Init /\ [][NextLoop]_vars

(* ------------------------------- properties ---------------------------- *)
\* index of file_path in the current session, 0 when it has no such task
Idx(file_path) == get_task_by_path(current_session, file_path)

\* the status of file_path in the current session
StatusOf(file_path) == current_session.tasks[Idx(file_path)].status

\* C1: after every start_task / complete_task / fail_task / skip_task call, in
\* any order and with repeats, completed_files + failed_files + skipped_files
\* is at most total_files
CounterInvariant ==
    Processed(current_session) <= current_session.total_files

\* C2: once a task is completed, failed or skipped, no later start_task,
\* complete_task, fail_task or skip_task call changes its status
NoTransitionLeavesTerminal ==
    [][\A f \in Files :
          (StartTask(f) \/ CompleteTask(f) \/ FailTask(f) \/ SkipTask(f))
              => \A i \in 1..Len(current_session.tasks) :
                    current_session.tasks[i].status \in Terminal
                        => current_session'.tasks[i].status
                              = current_session.tasks[i].status]_vars

\* C3: start_task on a task that is not pending is reported as an error and
\* leaves the task's status and attempts as they were
BeginNonPendingRejected ==
    [][\A f \in Files :
          (StartTask(f) /\ Idx(f) # 0 /\ StatusOf(f) # "pending")
              => /\ ret' = "False"
                 /\ current_session'.tasks = current_session.tasks]_vars

\* C4: complete_task, fail_task and skip_task require status processing: a
\* call on a task that is still pending changes neither its status nor any
\* counter of the session
TerminalRequiresProcessing ==
    [][\A f \in Files :
          ((CompleteTask(f) \/ FailTask(f) \/ SkipTask(f))
               /\ Idx(f) # 0 /\ StatusOf(f) = "pending")
              => current_session' = current_session]_vars

\* C5: whenever a ledger call has returned, the session file records every
\* terminal task of the session with its status and result, and the counters
TerminalPersisted ==
    (Idle /\ current_session # NoSession)
        => \A i \in 1..Len(current_session.tasks) :
              current_session.tasks[i].status \in Terminal
                  => LET d == load_session(current_session.session_id)
                     IN  /\ d # NoSession
                         /\ i <= Len(d.tasks)
                         /\ d.tasks[i].status = current_session.tasks[i].status
                         /\ d.tasks[i].password = current_session.tasks[i].password
                         /\ d.completed_files = current_session.completed_files
                         /\ d.failed_files = current_session.failed_files
                         /\ d.skipped_files = current_session.skipped_files

\* C6: right after create_session has resumed a persisted session no task is
\* in status processing
ResumeResetsProcessing ==
    [][\A confirm \in BOOLEAN :
          CreateSession(confirm)
              => \A i \in 1..Len(current_session'.tasks) :
                    current_session'.tasks[i].status # "processing"]_vars

\* the session create_session would find on disk now
Existing == load_session(generate_session_id(TargetPath, Mask, Mode, now))

\* no two tasks of s have the same file_path
NoDuplicates(s) ==
    \A i, j \in 1..Len(s.tasks) :
        s.tasks[i].file_path = s.tasks[j].file_path => i = j

\* C7: resuming the session a stopped process worked on yields its N tasks
\* without duplicates and at least as many terminal tasks as the process had
\* reached before it stopped
ResumeKeepsTerminal ==
    [][(CreateSession(TRUE) /\ Existing # NoSession
            /\ crashed.sid = Existing.session_id)
          => /\ Len(current_session'.tasks) = Len(FileList)
             /\ NoDuplicates(current_session')
             /\ TerminalCount(current_session') >= crashed.k]_vars

\* C8: resume_session(session_id) on a persisted session continues that very
\* session: it becomes the current session unchanged and the tasks queued for
\* dispatch are exactly its pending tasks, whatever the calendar day
ResumeSessionContinues ==
    [][\A sid \in SessionIds, file_list \in FileLists :
          (ResumeSession(sid, file_list, TRUE) /\ load_session(sid) # NoSession)
              => /\ current_session' = load_session(sid)
                 /\ pending_tasks' = get_pending_tasks(load_session(sid))]_vars

\* C9: a reader that loads a session file never finds a half-written document
ReaderNeverSeesPartial ==
    readerSaw # "unreadable"

\* C10: when the session file is corrupt or partially written, create_session
\* returns normally with a fresh session, every target pending and all
\* counters zero, whatever the answer to the resume prompt
CorruptFileGivesFreshSession ==
    [][\A confirm \in BOOLEAN :
          (CreateSession(confirm)
               /\ LoadFails(generate_session_id(TargetPath, Mask, Mode, now)))
              => /\ ret' = "session_id"
                 /\ current_session' =
                        BatchProgress(generate_session_id(TargetPath, Mask, Mode, now),
                                      TargetPath, Mask, Mode, FileList)
                 /\ get_pending_tasks(current_session') = FileList]_vars

\* C10 witness: create_session has just run into an unreadable file and holds
\* a fresh session
FreshAfterCorrupt ==
    /\ console = "load_failed"
    /\ ret = "session_id"
    /\ current_session # NoSession
    /\ get_pending_tasks(current_session) = FileList
    /\ Processed(current_session) = 0

\* the id create_session derives now
IdNow == generate_session_id(TargetPath, Mask, Mode, now)

\* C11: with no session file under the derived id, create_session builds a
\* fresh session (one pending task per target in insertion order, counters
\* 0, total_files the number of targets) and writes it: once the call has
\* returned, the file holds exactly that session
CreateFreshPersisted ==
    /\ [][\A confirm \in BOOLEAN :
            (CreateSession(confirm) /\ ~disk[IdNow].exists)
                => /\ current_session' =
                          BatchProgress(IdNow, TargetPath, Mask, Mode, FileList)
                   /\ get_pending_tasks(current_session') = FileList
                   /\ current_session'.total_files = Len(FileList)
                   /\ Processed(current_session') = 0
                   /\ disk'[IdNow].exists
                   /\ writing' = [sid |-> IdNow,
                                  rest |-> to_dict(current_session')]]_vars
    /\ []((ret = "session_id" /\ console = "" /\ Idle)
            => load_session(current_session.session_id) = current_session)

\* C11 witness: create_session found no file, has returned, and the file holds
\* the fresh session
FreshOnDisk ==
    /\ ret = "session_id" /\ console = "" /\ Idle
    /\ procpc = "idle"
    /\ get_pending_tasks(current_session) = FileList
    /\ load_session(current_session.session_id) = current_session

\* the current session has no task for file_path
NotInSession(file_path) ==
    \A i \in 1..Len(current_session.tasks) :
        current_session.tasks[i].file_path # file_path

\* C13: start_task, complete_task, fail_task and skip_task with a path that
\* is not in the current session return False and leave every task, every
\* counter and the session file unchanged
UnknownTargetRejected ==
    [][\A f \in Files \cup {Unknown} :
          (NotInSession(f)
               /\ (StartTask(f) \/ CompleteTask(f) \/ FailTask(f) \/ SkipTask(f)))
              => /\ ret' = "False"
                 /\ UNCHANGED <<current_session, disk, writing,
                                last_save_time>>]_vars

\* C13 witness: a call with an unknown path has returned False on a session
\* that holds tasks
UnknownCallReturned ==
    /\ ret = "False"
    /\ current_session # NoSession
    /\ NotInSession(Unknown)

\* the file paths of the tasks of s, in order
PathsOf(s) == [i \in 1..Len(s.tasks) |-> s.tasks[i].file_path]

\* C12: after create_session(target_path, mask, mode, file_list) the current
\* session holds exactly one task per target of file_list, created or
\* resumed, and total_files is the number of tasks; no later call on the
\* session changes total_files
OneTaskPerTarget ==
    /\ [][\A file_list \in FileLists, confirm \in BOOLEAN :
            ProcessDirectory(file_list, confirm)
                => /\ PathsOf(current_session') = file_list
                   /\ current_session'.total_files
                          = Len(current_session'.tasks)]_vars
    /\ [][(LoopStart \/ (\E has_password, info_ok \in BOOLEAN : LoopEnd(has_password, info_ok)) \/ FinalSave)
            => current_session'.total_files = current_session.total_files]_vars

(* ----------------------- session id derivation ------------------------- *)
\* run parameters a caller may pass to generate_session_id
TargetPaths == {TargetPath, "certificate"}
Modes == {Mode, "ultimate"}

\* one call of generate_session_id at the present clock reading
GenerateSessionId(target_path, mask, mode) ==
    /\ Len(derived) < MaxDerivations
    /\ derived' = Append(derived,
                         [target_path |-> target_path, mask |-> mask,
                          mode |-> mode, t |-> now,
                          id |-> generate_session_id(target_path, mask, mode, now)])
    /\ UNCHANGED nonIdVars

NextId ==
    \/ \E target_path \in TargetPaths, mode \in Modes :
            GenerateSessionId(target_path, Mask, mode)
    \/ Tick
    \/ NextDay

SpecId == Init /\ [][NextId]_vars

\* two recorded derivations were made with the same arguments on the same day
SameArguments(a, b) ==
    /\ a.target_path = b.target_path
    /\ a.mask = b.mask
    /\ a.mode = b.mode
    /\ Day(a.t) = Day(b.t)

\* C14: two derivations of the session id with the same target path, mask and
\* mode on the same calendar day return the same id, whatever the time of day
SessionIdDeterministic ==
    \A i, j \in 1..Len(derived) :
        SameArguments(derived[i], derived[j]) => derived[i].id = derived[j].id

\* C14 witness: the same arguments were hashed at two different times of one day
SameDayDerivedTwice ==
    \E i, j \in 1..Len(derived) :
        /\ SameArguments(derived[i], derived[j])
        /\ derived[i].t # derived[j].t
        /\ derived[i].id = derived[j].id

(* ------------------------------ worker pools --------------------------- *)
\* chunksize of pool.imap_unordered in process_all_results_parallel
chunksize == 2

\* task batches that hand the same task out twice: each batch starts one task
\* after the batch before it
RECURSIVE get_tasks_overlapping(_, _)
get_tasks_overlapping(it, size) ==
    IF it = <<>> THEN <<>>
    ELSE LET n == IF Len(it) < size THEN Len(it) ELSE size
         IN  <<SubSeq(it, 1, n)>> \o get_tasks_overlapping(Tail(it), size)

\* multiprocessing.Pool cuts the task list into batches of chunksize tasks; the
\* executor's submit makes one work item per task (size 1)
RECURSIVE get_tasks(_, _)
get_tasks(it, size) ==
    IF it = <<>> THEN <<>>
    ELSE LET n == IF Len(it) < size THEN Len(it) ELSE size
         IN  <<SubSeq(it, 1, n)>> \o get_tasks(SubSeq(it, n + 1, Len(it)), size)

\* an exception that leaves the task function; the pool stores it as the
\* result and raises it again in the collecting loop
Raised(uuid) == [uuid |-> uuid, raised |-> ErrorMsg]
IsRaised(result) == "raised" \in DOMAIN result

\* a worker function without the try block: the exception leaves it
_extract_worker_unguarded(uuid) ==
    IF uuid \in fn_raises THEN Raised(uuid)
    ELSE [uuid |-> uuid, extraction_success |-> TRUE, extraction_error |-> None]

\* _extract_worker: the extraction runs inside try; except Exception returns
\* the failure dict with str(e)
_extract_worker(uuid) ==
    IF uuid \in fn_raises
    THEN [uuid |-> uuid, extraction_success |-> FALSE, extraction_error |-> ErrorMsg]
    ELSE [uuid |-> uuid, extraction_success |-> TRUE, extraction_error |-> None]

\* extract_single_hash: the whole body runs inside try; no hash, a non-zero
\* exit, the 30 s timeout and any other exception return a failure dict
extract_single_hash(uuid) ==
    IF uuid \in fn_raises
    THEN [uuid |-> uuid, success |-> FALSE, error |-> ErrorMsg]
    ELSE [uuid |-> uuid, success |-> TRUE, error |-> None]

\* the tasks list of a run with m targets
TaskList(m) == [i \in 1..m |-> i]

\* the state both pools start a run in
StartPool(kind, m, c, failing, size) ==
    /\ poolpc' = "running"
    /\ pool_kind' = kind
    /\ pool_tasks' = TaskList(m)
    /\ fn_raises' = failing
    /\ num_workers' = c
    /\ taskq' = get_tasks(TaskList(m), size)
    /\ UNCHANGED <<worker, outq, complete_results, successful_hashes,
                   failed_files>>
    /\ UNCHANGED nonPoolVars

\* process_all_results_parallel: Pool(processes=num_workers) and
\* imap_unordered(_extract_worker, tasks, chunksize=2)
ProcessAllResultsParallel(m, c, failing) ==
    /\ poolpc = "idle"
    /\ StartPool("imap_unordered", m, c, failing, chunksize)

\* batch_extract_hashes: ThreadPoolExecutor and one submit per keystore
BatchExtractHashes(m, c, failing) ==
    /\ poolpc = "idle"
    /\ StartPool("as_completed", m, c, failing, 1)

\* an idle worker takes the next batch from the task queue
TakeChunk(w) ==
    /\ poolpc = "running"
    /\ w <= num_workers
    /\ worker[w] = IdleWorker
    /\ taskq # <<>>
    /\ worker' = [worker EXCEPT ![w] = [chunk |-> Head(taskq), results |-> <<>>]]
    /\ taskq' = Tail(taskq)
    /\ UNCHANGED <<poolpc, pool_kind, pool_tasks, fn_raises, num_workers, outq,
                   complete_results, successful_hashes, failed_files>>
    /\ UNCHANGED nonPoolVars

\* the results a worker puts for a finished batch: the list of its results, or
\* the exception that ended the batch
BatchResult(results) ==
    IF \E i \in 1..Len(results) : IsRaised(results[i])
    THEN <<results[CHOOSE i \in 1..Len(results) : IsRaised(results[i])]>>
    ELSE results

\* a worker finishes the task it is running; results reach the result queue
\* when the last task of the batch has finished
RunTask(w) ==
    /\ poolpc = "running"
    /\ worker[w].chunk # <<>>
    /\ LET uuid == Head(worker[w].chunk)
           result == IF pool_kind = "imap_unordered" THEN _extract_worker(uuid)
                     ELSE extract_single_hash(uuid)
           results == Append(worker[w].results, result)
       IN  IF Tail(worker[w].chunk) = <<>>
           THEN /\ outq' = outq \o BatchResult(results)
                /\ worker' = [worker EXCEPT ![w] = IdleWorker]
           ELSE /\ worker' = [worker EXCEPT ![w] = [chunk |-> Tail(@.chunk),
                                                    results |-> results]]
                /\ outq' = outq
    /\ UNCHANGED <<poolpc, pool_kind, pool_tasks, fn_raises, num_workers, taskq,
                   complete_results, successful_hashes, failed_files>>
    /\ UNCHANGED nonPoolVars

\* one pass of the collecting loop: the iterator yields the oldest result put;
\* a stored exception is raised again there, leaves the with block and the
\* pool is torn down
Collect ==
    /\ poolpc = "running"
    /\ outq # <<>>
    /\ LET result == Head(outq)
       IN  IF IsRaised(result)
           THEN /\ poolpc' = "raised"
                /\ taskq' = <<>>
                /\ worker' = [w \in 1..MaxWorkers |-> IdleWorker]
                /\ outq' = <<>>
                /\ UNCHANGED <<complete_results, successful_hashes, failed_files>>
           ELSE /\ outq' = Tail(outq)
                /\ IF pool_kind = "imap_unordered"
                   THEN /\ complete_results' = Append(complete_results, result)
                        /\ UNCHANGED <<successful_hashes, failed_files>>
                   ELSE IF result.success
                   THEN /\ successful_hashes' = Append(successful_hashes, result)
                        /\ UNCHANGED <<complete_results, failed_files>>
                   ELSE /\ failed_files' = Append(failed_files,
                                                  [uuid |-> result.uuid,
                                                   error |-> result.error])
                        /\ UNCHANGED <<complete_results, successful_hashes>>
                /\ UNCHANGED <<poolpc, taskq, worker>>
    /\ UNCHANGED <<pool_kind, pool_tasks, fn_raises, num_workers>>
    /\ UNCHANGED nonPoolVars

\* the uuids of the outcomes the loop has collected, in collection order
CollectedUuids ==
    [i \in 1..Len(complete_results) |-> complete_results[i].uuid]
        \o [i \in 1..Len(successful_hashes) |-> successful_hashes[i].uuid]
        \o [i \in 1..Len(failed_files) |-> failed_files[i].uuid]

\* the iterator is exhausted once it has yielded one result per task handed in;
\* the loop ends and the with block closes the pool
PoolExit ==
    /\ poolpc = "running"
    /\ Len(CollectedUuids) = Len(pool_tasks)
    /\ poolpc' = "done"
    /\ UNCHANGED <<pool_kind, pool_tasks, fn_raises, num_workers, taskq, worker,
                   outq, complete_results, successful_hashes, failed_files>>
    /\ UNCHANGED nonPoolVars

NextPool ==
    \/ \E m \in 1..MaxTargets, c \in 1..MaxWorkers :
          \E failing \in SUBSET (1..m) : ProcessAllResultsParallel(m, c, failing)
    \/ \E m \in 1..MaxTargets, c \in 1..MaxWorkers :
          \E failing \in SUBSET (1..m) : BatchExtractHashes(m, c, failing)
    \/ \E w \in 1..MaxWorkers : TakeChunk(w)
    \/ \E w \in 1..MaxWorkers : RunTask(w)
    \/ Collect
    \/ PoolExit

SpecPool == Init /\ [][NextPool]_vars

\* the places a task or its outcome can be: positions of uuid in the batches
\* not yet taken, in the workers' batches and held results, in the result
\* queue, and among the collected outcomes
Copies(uuid) ==
    Cardinality({p \in (1..Len(taskq)) \X (1..MaxTargets) :
                    p[2] <= Len(taskq[p[1]]) /\ taskq[p[1]][p[2]] = uuid})
    + Cardinality({p \in (1..MaxWorkers) \X (1..MaxTargets) :
                    p[2] <= Len(worker[p[1]].chunk)
                    /\ worker[p[1]].chunk[p[2]] = uuid})
    + Cardinality({p \in (1..MaxWorkers) \X (1..MaxTargets) :
                    p[2] <= Len(worker[p[1]].results)
                    /\ worker[p[1]].results[p[2]].uuid = uuid})
    + Cardinality({i \in 1..Len(outq) : outq[i].uuid = uuid})
    + Cardinality({i \in 1..Len(CollectedUuids) : CollectedUuids[i] = uuid})

\* C15: while a pool runs every target is in exactly one place (waiting,
\* running, queued as a result or collected), and when the collecting loop has
\* ended the collected outcomes are exactly one per target, for every number
\* of workers and every order in which the workers finish
PoolExactlyOnce ==
    /\ poolpc \in {"running", "done"}
          => \A uuid \in 1..Len(pool_tasks) : Copies(uuid) = 1
    /\ poolpc = "done"
          => /\ Len(CollectedUuids) = Len(pool_tasks)
             /\ \A uuid \in 1..Len(pool_tasks) :
                   Cardinality({i \in 1..Len(CollectedUuids) :
                                   CollectedUuids[i] = uuid}) = 1

\* C15 witness: a run over more targets than one batch, on several workers,
\* has ended with the last target collected before the first
OutOfOrderRunDone ==
    /\ poolpc = "done"
    /\ Len(pool_tasks) > chunksize
    /\ num_workers > 1
    /\ CollectedUuids[1] = Len(pool_tasks)

FinishedResultsNotWithheld ==
    \A w \in 1..MaxWorkers : worker[w].results = <<>>

(* --------------------------- engine launches --------------------------- *)
\* timeout of subprocess.run in crack_with_hashcat, in seconds
hashcat_timeout == 600
\* exit codes of the engine: 0, 1, and codes that are neither
ExitCodes == {0, 1, 2, 255}
\* the functions that launch the engine and wait for it
Launchers == {"step2_gpu_cracking", "crack_with_hashcat", "crack_single_hash"}

\* step2_gpu_cracking after the read loop: the outcome follows the return code
\* alone; codes 0 and 1 both return True
step2_gpu_cracking(return_code) ==
    IF return_code = 0 THEN [ret |-> "True", console |-> "cracked"]
    ELSE IF return_code = 1 THEN [ret |-> "True", console |-> "not_found"]
    ELSE [ret |-> "False", console |-> "error"]

\* crack_with_hashcat after subprocess.run returned: with code 0 the password
\* is taken from stdout or from --show, and without one None is returned;
\* code 1 returns None; any other code prints stderr and returns None
crack_with_hashcat(code, password_found) ==
    IF code = 0
    THEN IF password_found THEN [ret |-> Password, console |-> "cracked"]
         ELSE [ret |-> None, console |-> "no_password_in_output"]
    ELSE IF code = 1 THEN [ret |-> None, console |-> "not_found"]
    ELSE [ret |-> None, console |-> "error_stderr"]

\* crack_single_hash after communicate() returned: the exit code is not read;
\* the outcome is what read_potfile finds
crack_single_hash(cracked_password) ==
    IF cracked_password THEN [ret |-> "(True, pw)", console |-> "cracked"]
    ELSE [ret |-> "(False, '')", console |-> "failed"]

\* a launcher starts the engine process and begins to wait for it
Launch(l) ==
    /\ enginepc \in {"idle", "returned"}
    /\ engine_prev' = IF enginepc = "returned"
                      THEN [launcher |-> launcher, returncode |-> returncode,
                            ret |-> engine_ret]
                      ELSE engine_prev
    /\ enginepc' = "running"
    /\ launcher' = l
    /\ returncode' = NotExited
    /\ cracked' = FALSE
    /\ elapsed' = 0
    /\ child_alive' = TRUE
    /\ engine_ret' = None
    /\ engine_console' = ""
    /\ UNCHANGED nonEngineVars

\* the engine exits on its own, with or without a recovered password
EngineExit(code, found) ==
    /\ enginepc = "running"
    /\ returncode = NotExited
    /\ returncode' = code
    /\ cracked' = found
    /\ child_alive' = FALSE
    /\ UNCHANGED <<enginepc, launcher, elapsed, engine_ret, engine_console,
                   engine_prev>>
    /\ UNCHANGED nonEngineVars

\* the engine keeps running and the launcher keeps waiting; subprocess.run of
\* crack_with_hashcat waits no longer than its timeout
EngineTick ==
    /\ enginepc = "running"
    /\ returncode = NotExited
    /\ elapsed + hashcat_timeout <= MaxWait
    /\ launcher = "crack_with_hashcat" => elapsed < hashcat_timeout
    /\ elapsed' = elapsed + hashcat_timeout
    /\ UNCHANGED <<enginepc, launcher, returncode, cracked, child_alive,
                   engine_ret, engine_console, engine_prev>>
    /\ UNCHANGED nonEngineVars

\* subprocess.run kills the child when the timeout has passed and raises
\* TimeoutExpired; crack_with_hashcat prints the timeout and returns None
Timeout ==
    /\ enginepc = "running"
    /\ launcher = "crack_with_hashcat"
    /\ returncode = NotExited
    /\ elapsed >= hashcat_timeout
    /\ child_alive' = FALSE
    /\ enginepc' = "returned"
    /\ engine_ret' = None
    /\ engine_console' = "timeout"
    /\ UNCHANGED <<launcher, returncode, cracked, elapsed, engine_prev>>
    /\ UNCHANGED nonEngineVars

\* the wait ends because the engine has exited; the launcher returns
EngineReturn ==
    /\ enginepc = "running"
    /\ returncode # NotExited
    /\ LET out == IF launcher = "step2_gpu_cracking"
                  THEN step2_gpu_cracking(returncode)
                  ELSE IF launcher = "crack_with_hashcat"
                  THEN crack_with_hashcat(returncode, cracked)
                  ELSE crack_single_hash(cracked)
       IN  /\ engine_ret' = out.ret
           /\ engine_console' = out.console
    /\ enginepc' = "returned"
    /\ UNCHANGED <<launcher, returncode, cracked, elapsed, child_alive,
                   engine_prev>>
    /\ UNCHANGED nonEngineVars

NextEngine ==
    \/ \E l \in Launchers : Launch(l)
    \/ \E code \in ExitCodes, found \in BOOLEAN : EngineExit(code, found)
    \/ EngineTick
    \/ Timeout
    \/ EngineReturn

SpecEngine == Init /\ [][NextEngine]_vars

\* C18: a launcher that returns after the engine exited with code 0 without a
\* recovered password does not report the password as cracked
ExitZeroAloneIsNotSuccess ==
    (enginepc = "returned" /\ returncode = 0 /\ ~cracked)
        => engine_console # "cracked"

\* C19: the same launcher returns different values for an engine that exited
\* with code 1 and for one that exited with a code other than 0 and 1
ExitCodesDistinguished ==
    (/\ enginepc = "returned"
     /\ engine_prev.launcher = launcher
     /\ engine_prev.returncode = 1
     /\ returncode \notin {0, 1, NotExited})
        => engine_ret # engine_prev.ret

\* C20: no launcher is still waiting for a running engine after more than the
\* timeout has passed
WaitIsBounded ==
    (enginepc = "running" /\ returncode = NotExited)
        => elapsed <= hashcat_timeout

(* ------------------------ batch loop outcomes -------------------------- *)
\* the task of the current session for file_path, after the step
TaskAfter(file_path) ==
    current_session'.tasks[get_task_by_path(current_session', file_path)]

\* C26: when the password of a task was recovered and extract_simple_info
\* failed, the loop completes the task with the password; the failure shows
\* only as the placeholder alias of the returned result, and the task is not
\* counted as failed
InspectorFailureKeepsCompleted ==
    [][LoopEnd(TRUE, FALSE)
          => /\ TaskAfter(Head(pending_tasks)).status = "completed"
             /\ TaskAfter(Head(pending_tasks)).password = Password
             /\ TaskAfter(Head(pending_tasks)).error_message = None
             /\ last_result'.success
             /\ last_result'.alias = Placeholder
             /\ current_session'.completed_files = current_session.completed_files + 1
             /\ current_session'.failed_files = current_session.failed_files]_vars

\* C26 witness: the loop has completed a task whose result carries the
\* placeholder alias
CompletedWithPlaceholder ==
    /\ procpc = "loop"
    /\ last_result.success
    /\ last_result.alias = Placeholder
    /\ \E i \in 1..Len(current_session.tasks) :
          /\ current_session.tasks[i].file_path = last_result.file
          /\ current_session.tasks[i].status = "completed"
          /\ current_session.tasks[i].password = Password

\* the status the task for file_path has in the current session
LoopStatus(file_path) ==
    current_session.tasks[get_task_by_path(current_session, file_path)].status

\* C27: a task that fails is marked failed and the loop goes on with the rest
\* of the pending tasks; when the loop has ended every task that was pending
\* at its start is completed, failed or skipped
FailuresDoNotAbortLoop ==
    /\ [][\A info_ok \in BOOLEAN :
            LoopEnd(FALSE, info_ok)
                => /\ TaskAfter(Head(pending_tasks)).status = "failed"
                   /\ pending_tasks' = Tail(pending_tasks)
                   /\ procpc' = "loop"]_vars
    /\ []((procpc \in {"idle", "loop"} /\ pending_tasks = <<>>)
             => \A i \in 1..Len(loop_tasks) : LoopStatus(loop_tasks[i]) \in Terminal)

\* C27 witness: a loop over two pending tasks has ended after its first task
\* failed and its second was completed
LoopEndedAfterFailure ==
    /\ procpc = "idle"
    /\ Len(loop_tasks) = 2
    /\ LoopStatus(loop_tasks[1]) = "failed"
    /\ LoopStatus(loop_tasks[2]) = "completed"

(* ------------------------- task record invariants ---------------------- *)
\* C29: for every task of the current session a password is present exactly
\* when the status is completed, and an error message exactly when the status
\* is failed or skipped
ResultAndErrorMatchStatus ==
    \A i \in 1..Len(current_session.tasks) :
        LET task == current_session.tasks[i]
        IN  /\ (task.password # None) <=> (task.status = "completed")
            /\ (task.error_message # None) <=> (task.status \in {"failed", "skipped"})

\* C30: every task of the current session whose status is not pending has
\* been started at least once
AttemptsOnceLeftPending ==
    \A i \in 1..Len(current_session.tasks) :
        current_session.tasks[i].status # "pending"
            => current_session.tasks[i].attempts >= 1

(* ------------------------ GPU batch supervision ------------------------ *)
\* the hash lists run_batch_crack gets: hashes 1..n
HashLists == {[i \in 1..n |-> i] : n \in 1..MaxHashes}

\* an engine process: "running" exits on SIGTERM within the grace period,
\* "stubborn" does not, "exited" has exited
Live == {"running", "stubborn"}

\* the process Popen returned last
process == Len(proc)

\* stop_all_sessions' loop body whose except branch does not kill
cancel_nokill(state) ==
    IF state = "stubborn"
    THEN [state |-> "stubborn", calls |-> <<"terminate", "wait", "raise">>]
    ELSE [state |-> "exited", calls |-> <<"terminate", "wait">>]

\* stop_all_sessions' loop body on one process: terminate(), wait(timeout=5),
\* and kill() when the wait timed out. terminate() and wait() on a process
\* that has exited do nothing
cancel(state) ==
    IF state = "stubborn"
    THEN [state |-> "exited", calls |-> <<"terminate", "wait", "kill">>]
    ELSE [state |-> "exited", calls |-> <<"terminate", "wait">>]

\* run_batch_crack(hashes): up to the first check of stop_flag
RunBatchCrack(hashes) ==
    /\ gpupc = "idle"
    /\ hash_list' = hashes
    /\ gpupc' = "batch"
    /\ UNCHANGED <<stop_flag, running_sessions, proc, signals, cancel_calls>>
    /\ UNCHANGED nonGpuVars

\* the head of the loop over the hashes: leave the loop when stop_flag is set
\* or no hash is left, else call crack_single_hash
BatchNext ==
    /\ gpupc = "batch"
    /\ gpupc' = IF stop_flag \/ hash_list = <<>> THEN "done" ELSE "attack"
    /\ UNCHANGED <<hash_list, stop_flag, running_sessions, proc, signals,
                   cancel_calls>>
    /\ UNCHANGED nonGpuVars

\* crack_single_hash, head of the loop over its one attack: break when
\* stop_flag is set and return (False, ""), else go on to build the command
AttackCheck ==
    /\ gpupc = "attack"
    /\ IF stop_flag
       THEN gpupc' = "batch" /\ hash_list' = Tail(hash_list)
       ELSE gpupc' = "spawn" /\ UNCHANGED hash_list
    /\ UNCHANGED <<stop_flag, running_sessions, proc, signals, cancel_calls>>
    /\ UNCHANGED nonGpuVars

\* subprocess.Popen(cmd, ...) returns the new process
Popen(state) ==
    /\ gpupc = "spawn"
    /\ proc' = Append(proc, state)
    /\ gpupc' = "register"
    /\ UNCHANGED <<hash_list, stop_flag, running_sessions, signals, cancel_calls>>
    /\ UNCHANGED nonGpuVars

\* subprocess.Popen raises (the engine cannot be started): no process exists,
\* the except branch logs, the loop over the one attack ends and
\* crack_single_hash returns (False, "")
PopenRaises ==
    /\ gpupc = "spawn"
    /\ hash_list' = Tail(hash_list)
    /\ gpupc' = "batch"
    /\ UNCHANGED <<stop_flag, running_sessions, proc, signals, cancel_calls>>
    /\ UNCHANGED nonGpuVars

\* self.running_sessions[session_name] = process
Register ==
    /\ gpupc = "register"
    /\ running_sessions' = running_sessions \cup {process}
    /\ gpupc' = "communicate"
    /\ UNCHANGED <<hash_list, stop_flag, proc, signals, cancel_calls>>
    /\ UNCHANGED nonGpuVars

\* process.communicate() returns when the process has exited
Communicate ==
    /\ gpupc = "communicate"
    /\ proc[process] = "exited"
    /\ gpupc' = "cleanup"
    /\ UNCHANGED <<hash_list, stop_flag, running_sessions, proc, signals,
                   cancel_calls>>
    /\ UNCHANGED nonGpuVars

\* process.communicate() raises while it waits, the process running or
\* exited: the except branch logs, nothing is deleted from running_sessions
\* and nothing is stopped, and crack_single_hash returns (False, "")
CommunicateRaises ==
    /\ gpupc = "communicate"
    /\ hash_list' = Tail(hash_list)
    /\ gpupc' = "batch"
    /\ UNCHANGED <<stop_flag, running_sessions, proc, signals, cancel_calls>>
    /\ UNCHANGED nonGpuVars

\* del self.running_sessions[session_name], return to run_batch_crack
Cleanup ==
    /\ gpupc = "cleanup"
    /\ running_sessions' = running_sessions \ {process}
    /\ hash_list' = Tail(hash_list)
    /\ gpupc' = "batch"
    /\ UNCHANGED <<stop_flag, proc, signals, cancel_calls>>
    /\ UNCHANGED nonGpuVars

\* an engine process finishes its search
ChildExit(p) ==
    /\ proc[p] \in Live
    /\ proc' = [proc EXCEPT ![p] = "exited"]
    /\ UNCHANGED <<gpupc, hash_list, stop_flag, running_sessions, signals,
                   cancel_calls>>
    /\ UNCHANGED nonGpuVars

\* signal_handler: stop_flag.set(), then stop_all_sessions() over the
\* processes in running_sessions. The handler runs in the main thread between
\* two of its steps
SignalHandler ==
    /\ signals < MaxSignals
    /\ signals' = signals + 1
    /\ stop_flag' = TRUE
    /\ proc' = [p \in 1..Len(proc) |->
                   IF p \in running_sessions THEN cancel(proc[p]).state
                   ELSE proc[p]]
    /\ cancel_calls' = [p \in running_sessions |-> cancel(proc[p]).calls]
    /\ UNCHANGED <<gpupc, hash_list, running_sessions>>
    /\ UNCHANGED nonGpuVars

NextGpu ==
    \/ \E hashes \in HashLists : RunBatchCrack(hashes)
    \/ BatchNext
    \/ AttackCheck
    \/ \E state \in Live : Popen(state)
    \/ PopenRaises
    \/ Register
    \/ Communicate
    \/ CommunicateRaises
    \/ Cleanup
    \/ \E p \in 1..Len(proc) : ChildExit(p)
    \/ SignalHandler

SpecGpu == Init /\ [][NextGpu]_vars

\* the engine processes that have not exited
LiveProcesses == {p \in 1..Len(proc) : proc[p] \in Live}

\* C21: cancelling sends the graceful signal, waits the grace period and
\* force-kills only then; after it no cancelled process runs and no error is
\* raised; on a process that had exited (also one cancelled before) it changes
\* nothing
CancelIsIdempotent ==
    [][signals' = signals + 1
        => /\ \A p \in running_sessions :
                /\ proc'[p] = "exited"
                /\ SubSeq(cancel_calls'[p], 1, 2) = <<"terminate", "wait">>
                /\ \A i \in 1..Len(cancel_calls'[p]) :
                       cancel_calls'[p][i] # "raise"
                /\ (Len(cancel_calls'[p]) = 3)
                       <=> (proc[p] = "stubborn" /\ cancel_calls'[p][3] = "kill")
           /\ (\A p \in running_sessions : proc[p] = "exited") => proc' = proc
           /\ \A p \in 1..Len(proc) : proc[p] = "exited" => proc'[p] = "exited"]_vars

\* a second request cancelled a process of running_sessions that had exited
CancelledTwice ==
    /\ signals = 2
    /\ \E p \in running_sessions :
          proc[p] = "exited" /\ cancel_calls[p] = <<"terminate", "wait">>

\* C22: after a termination request, whenever it arrives, no engine process
\* is left running and no further engine process is started
NoChildAfterStop ==
    /\ [](stop_flag => LiveProcesses = {})
    /\ [][stop_flag => Len(proc') = Len(proc)]_vars

\* C23: at most one engine process is alive at a time, in running_sessions
\* or not, and a new one is spawned only when every earlier one has exited
OneEngineProcess ==
    /\ [](Cardinality(LiveProcesses) <= 1)
    /\ [][Len(proc') > Len(proc) => LiveProcesses = {}]_vars

\* a second engine process runs after the first has exited
SecondProcessRuns ==
    /\ Len(proc) >= 2
    /\ proc[1] = "exited"
    /\ proc[2] \in Live
    /\ 2 \in running_sessions

\* crack_single_hash returns to run_batch_crack
CrackSingleHashReturns == gpupc # "batch" /\ gpupc' = "batch" /\ gpupc # "idle"

\* C37: when crack_single_hash returns, by the normal path or after an
\* exception of Popen or of communicate, running_sessions has no entry of the
\* run and no process the run started is alive
NothingLeftAfterReturn ==
    [][CrackSingleHashReturns
        => /\ gpupc \in {"attack", "spawn"}
              => running_sessions' = running_sessions /\ proc' = proc
           /\ gpupc \in {"communicate", "cleanup"}
              => process \notin running_sessions' /\ proc'[process] = "exited"]_vars

\* what does hold: a return by the normal path, and one after Popen raised,
\* leaves no entry and no live process of the run
NothingLeftAfterNormalReturn ==
    [][CrackSingleHashReturns /\ gpupc # "communicate"
        => /\ gpupc \in {"attack", "spawn"}
              => running_sessions' = running_sessions /\ proc' = proc
           /\ gpupc = "cleanup"
              => process \notin running_sessions' /\ proc'[process] = "exited"]_vars

(* ------------------------- engine session names ------------------------ *)
\* hash_algorithms[algo_type]['mode']
hash_algorithms == [jks |-> "15500", pkcs12 |-> "17200"]
AlgoTypes == {"jks", "pkcs12"}
HashIds == {"h1", "h2"}

\* get_session_name(algo_type, hash_id) at clock reading t:
\* f"m{mode}_{hash_id}_{int(time.time())}", the three parts kept apart
get_session_name(algo_type, hash_id, t) ==
    <<"m", hash_algorithms[algo_type], hash_id, t>>

\* restore_session(session_name) up to its check of the session file: False
\* when sessions/{session_name}.session does not exist
restore_session(session_name) == session_name \in session_files

\* restore_session(session_name), whole: True when the session file exists
\* and the hashcat --restore run exits with returncode 0
restore_session_returns(session_name, restore_returncode) ==
    restore_session(session_name) /\ restore_returncode = 0

\* crack_single_hash(hash_id, hash_line, algo_type) with its one attack: the
\* name is derived and a restore is tried; after a restore that returned True
\* the loop continues, ends, and (False, "") is returned; else the engine is
\* started under that name and the potfile is read. found: the search, resumed
\* or new, left the password in the potfile. A run that is interrupted leaves
\* its session file
CrackSingleHash(algo_type, hash_id, interrupted, restore_returncode, found) ==
    /\ Len(attacks) < MaxDerivations
    /\ LET session_name == get_session_name(algo_type, hash_id, now)
           resumed == restore_session_returns(session_name, restore_returncode)
       IN  /\ attacks' = Append(attacks,
                                [algo_type |-> algo_type, hash_id |-> hash_id,
                                 session_name |-> session_name,
                                 restored |-> restore_session(session_name),
                                 resumed |-> resumed,
                                 found |-> found,
                                 ret |-> IF ~resumed /\ found THEN "(True, pw)"
                                         ELSE "(False, '')",
                                 interrupted |-> interrupted])
           /\ session_files' = IF interrupted
                               THEN session_files \cup {session_name}
                               ELSE session_files \ {session_name}
    /\ UNCHANGED <<now, nonNameVars>>

NextName ==
    \/ \E algo_type \in AlgoTypes, hash_id \in HashIds, interrupted \in BOOLEAN,
          restore_returncode \in {0, 1}, found \in BOOLEAN :
            CrackSingleHash(algo_type, hash_id, interrupted, restore_returncode,
                            found)
    \/ Tick
    \/ NextDay

SpecName == Init /\ [][NextName]_vars

\* C24: the session name is stable: a later attack on the same hash with the
\* same algorithm gets the name of the earlier one, and when the earlier run
\* was interrupted the next attack on that hash finds its session and restores
SessionNameStable ==
    \A i, j \in 1..Len(attacks) :
        (/\ i < j
         /\ attacks[i].algo_type = attacks[j].algo_type
         /\ attacks[i].hash_id = attacks[j].hash_id)
        => /\ attacks[i].session_name = attacks[j].session_name
           /\ (attacks[i].interrupted /\ j = i + 1) => attacks[j].restored

(* -------------------------- status line parser ------------------------- *)
\* A status line is a sequence of tokens: "text" is log text without a brace,
\* "{" and "}" are the braces of the status object, and each other token is
\* one member of the object, written with its separators:
\*   "progress"   "progress": [10, 100]
\*   "recovered"  "recovered": [0, 0]        (a key the parser does not read)
\*   "recovered_hashes"  "recovered_hashes": [1, 2]
\*   "devices"    "devices": [{"speed": 5, "temp": 60}]
\*   "devices_bad"  "devices": [7]           (a device that is not an object)
Members == {"progress", "recovered", "recovered_hashes", "devices", "devices_bad"}
Tokens == {"text", "{", "}"} \cup Members

\* the key of a member
KeyOf(member) == IF member = "devices_bad" THEN "devices" ELSE member

\* a device reading as json.loads returns it; keys are the keys it holds
Device == [is_dict |-> TRUE, keys |-> {"speed", "temp"},
           speed |-> 5, temp |-> 60, util |-> 0]
NotADevice == [is_dict |-> FALSE, keys |-> {}, speed |-> 0, temp |-> 0, util |-> 0]

\* the value of a member
ValueOf(member) ==
    IF member = "progress" THEN <<10, 100>>
    ELSE IF member = "recovered" THEN <<0, 0>>
    ELSE IF member = "recovered_hashes" THEN <<1, 2>>
    ELSE IF member = "devices" THEN <<Device>>
    ELSE <<NotADevice>>

\* the outcomes of a call
NoneResult == [kind |-> "None"]
ParseRaised == [kind |-> "raised"]

\* status_line.find('{'): index of the first brace, counted from 0, or -1
RECURSIVE find(_, _, _)
find(line, token, start) ==
    IF start >= Len(line) THEN 0 - 1
    ELSE IF line[start + 1] = token THEN start
    ELSE find(line, token, start + 1)

\* json.loads on text that starts with "{": reads members up to the closing
\* brace; raises on text, on a brace inside, on a missing closing brace and on
\* anything after the closing brace. Returns the members read, in order
RECURSIVE json_loads(_, _, _)
json_loads(json_str, i, members) ==
    IF i > Len(json_str) THEN ParseRaised
    ELSE IF json_str[i] = "}"
         THEN IF i = Len(json_str) THEN [kind |-> "dict", members |-> members]
              ELSE ParseRaised
    ELSE IF json_str[i] \in Members
         THEN json_loads(json_str, i + 1, Append(members, json_str[i]))
    ELSE ParseRaised

\* status_data.get(key, default): with a repeated key the last member counts
RECURSIVE get(_, _, _)
get(members, key, default) ==
    IF members = <<>> THEN default
    ELSE IF KeyOf(members[Len(members)]) = key
         THEN ValueOf(members[Len(members)])
    ELSE get(SubSeq(members, 1, Len(members) - 1), key, default)

\* device.get(key, 0)
device_get(device, key) ==
    IF key \in device.keys THEN device[key] ELSE 0

\* the body of parse_hashcat_status inside its try
parse_body(line) ==
    LET json_start == find(line, "{", 0)
    IN  IF json_start = 0 - 1 THEN NoneResult
        ELSE LET status_data ==
                     json_loads(SubSeq(line, json_start + 1, Len(line)), 2, <<>>)
             IN  IF status_data.kind = "raised" THEN ParseRaised
                 ELSE LET progress == get(status_data.members, "progress", <<0, 0>>)
                          recovered_hashes ==
                              get(status_data.members, "recovered_hashes", <<0, 0>>)
                          devices == get(status_data.members, "devices", <<>>)
                      IN  IF devices = <<>>
                          THEN [kind |-> "snapshot", progress |-> progress,
                                recovered_hashes |-> recovered_hashes,
                                devices |-> Len(devices), readings |-> <<>>]
                          ELSE IF ~devices[1].is_dict THEN ParseRaised
                          ELSE [kind |-> "snapshot", progress |-> progress,
                                recovered_hashes |-> recovered_hashes,
                                devices |-> Len(devices),
                                readings |->
                                    <<device_get(devices[1], "speed"),
                                      device_get(devices[1], "temp"),
                                      device_get(devices[1], "util")>>]

\* a parse_hashcat_status without its try: the exception reaches the caller
parse_hashcat_status_unguarded(line) == parse_body(line)

\* parse_hashcat_status(status_line): every exception of the body is caught
\* and None is returned
parse_hashcat_status(line) ==
    IF parse_body(line).kind = "raised" THEN NoneResult ELSE parse_body(line)

\* the engine writes the next token of its output line
ReadToken(token) ==
    /\ parsed_status.kind = "unparsed"
    /\ Len(status_line) < MaxLineLen
    /\ status_line' = Append(status_line, token)
    /\ UNCHANGED parsed_status
    /\ UNCHANGED nonParseVars

\* the line is complete and given to the parser
ParseHashcatStatus ==
    /\ parsed_status.kind = "unparsed"
    /\ parsed_status' = parse_hashcat_status(status_line)
    /\ UNCHANGED status_line
    /\ UNCHANGED nonParseVars

NextParse ==
    \/ \E token \in Tokens : ReadToken(token)
    \/ ParseHashcatStatus

SpecParse == Init /\ [][NextParse]_vars

\* the line holds a payload: an opening brace
HasPayload(line) == \E i \in 1..Len(line) : line[i] = "{"

\* the payload of a line: the text from its first opening brace to its end
Payload(line) ==
    LET first == CHOOSE i \in 1..Len(line) :
                     line[i] = "{" /\ \A k \in 1..(i - 1) : line[k] # "{"
    IN  SubSeq(line, first, Len(line))

\* the members between the braces of a payload
Inner(payload) == SubSeq(payload, 2, Len(payload) - 1)

\* a payload is well formed when it is one object of members and nothing else,
\* and the device list it gives, if any, holds device objects
WellFormedPayload(payload) ==
    /\ Len(payload) >= 2
    /\ payload[Len(payload)] = "}"
    /\ \A k \in 1..Len(Inner(payload)) : Inner(payload)[k] \in Members
    /\ ~\E k \in 1..Len(Inner(payload)) :
            /\ Inner(payload)[k] = "devices_bad"
            /\ \A m \in (k + 1)..Len(Inner(payload)) :
                   KeyOf(Inner(payload)[m]) # "devices"

\* the member with this key is in the payload
Holds(payload, key) ==
    \E k \in 1..Len(Inner(payload)) : KeyOf(Inner(payload)[k]) = key

\* the status line of the parser robustness example:
\* prefix {"progress":[10,100],"recovered":[0,0]}
ExampleLine == <<"text", "{", "progress", "recovered", "}">>

\* C25: parse_hashcat_status never raises; it returns None when the line has
\* no payload or the payload is malformed, and else a snapshot of the payload
\* that starts at the first brace (text before it is allowed) with 0 for every
\* absent field; the example line gives 10 of 100 and 0 recovered
ParserIsTotal ==
    parsed_status.kind # "unparsed"
    => /\ parsed_status.kind \in {"None", "snapshot"}
       /\ parsed_status.kind = "None"
             <=> (~HasPayload(status_line)
                  \/ ~WellFormedPayload(Payload(status_line)))
       /\ parsed_status.kind = "snapshot"
             => LET payload == Payload(status_line)
                IN  /\ parsed_status.progress =
                            IF Holds(payload, "progress") THEN <<10, 100>>
                            ELSE <<0, 0>>
                    /\ parsed_status.recovered_hashes =
                            IF Holds(payload, "recovered_hashes") THEN <<1, 2>>
                            ELSE <<0, 0>>
                    /\ parsed_status.devices =
                            IF Holds(payload, "devices") THEN 1 ELSE 0
                    /\ parsed_status.readings =
                            IF Holds(payload, "devices") THEN <<5, 60, 0>>
                            ELSE <<>>
       /\ status_line = ExampleLine
             => /\ parsed_status.kind = "snapshot"
                /\ parsed_status.progress = <<10, 100>>
                /\ parsed_status.recovered_hashes[1] = 0
       /\ status_line = <<"text">> => parsed_status.kind = "None"

\* the example line was parsed into a snapshot
ExampleParsed ==
    /\ status_line = ExampleLine
    /\ parsed_status.kind = "snapshot"
    /\ parsed_status.progress = <<10, 100>>

\* a line with a malformed payload was answered with None
MalformedAnswered ==
    /\ HasPayload(status_line)
    /\ ~WellFormedPayload(Payload(status_line))
    /\ parsed_status.kind = "None"

(* ------------------------ failed session writes ------------------------ *)
\* a transition call on a task of the session
TransitionCall ==
    \E f \in Files : StartTask(f) \/ CompleteTask(f) \/ FailTask(f) \/ SkipTask(f)

\* C28: a failed write of the session file is logged, the transition still
\* takes effect and returns, and the unsaved state is written by the next
\* transition once the file can be written, without waiting for another
\* throttle interval: when the last call printed the save error and the
\* directory is writable again, the next transition on a task opens the file
FailedSaveRetriedAtNextTransition ==
    [][(console = "save_failed" /\ ~disk_fails /\ TransitionCall
          /\ ret' = "True")
        => writing' # NoWrite]_vars

\* the transition whose save failed took effect in memory and returned True
FailedSaveKeepsTransition ==
    [][(TransitionCall /\ console' = "save_failed")
        => /\ ret' = "True"
           /\ current_session' # current_session
           /\ disk' = disk /\ writing' = NoWrite
           /\ last_save_time' = now]_vars

(* ------------------------- batch result analysis ----------------------- *)
\* the hashes keystores can have; two copies of one keystore have the same
\* hash. A hash is one token, it holds no colon
Hashes == {"hashA", "hashB", "hashC"}
\* the password hashcat finds for a hash: six letters and digits, no colon
PasswordOf(hash) ==
    IF hash = "hashA" THEN "pwA" ELSE IF hash = "hashB" THEN "pwB" ELSE "pwC"

\* the hash_results create_batch_hash_file gets: one entry per keystore, the
\* uuid is the name of the keystore's directory
HashResults ==
    UNION {[1..n -> Hashes] : n \in 1..MaxKeystores}

\* create_batch_hash_file(hash_results): mapping_data[hash_index] holds the
\* uuid and the hash of the entry
create_batch_hash_file(hash_results) ==
    [i \in 1..Len(hash_results) |-> [uuid |-> i, hash |-> hash_results[i]]]

\* line.rsplit(':', 1): the parts before and after the last colon
rsplit(line) ==
    LET k == CHOOSE i \in 1..Len(line) :
                 line[i] = ":" /\ \A m \in (i + 1)..Len(line) : line[m] # ":"
    IN  <<SubSeq(line, 1, k - 1), SubSeq(line, k + 1, Len(line))>>

\* a dict after d[key] = value
Assign(d, key, value) ==
    [k \in DOMAIN d \cup {key} |-> IF k = key THEN value ELSE d[k]]

\* the reverse mapping of read_potfile_results over the first n entries:
\* hash_to_uuid[info['hash']] = info['uuid'], a later entry replaces an
\* earlier one with the same hash
RECURSIVE hash_to_uuid(_, _)
hash_to_uuid(mapping, n) ==
    IF n = 0 THEN <<>>
    ELSE Assign(hash_to_uuid(mapping, n - 1), <<mapping[n].hash>>,
                mapping[n].uuid)

\* read_potfile_results over the first n lines of the potfile: a line with a
\* colon is split at its last colon, and when the hash part is in the reverse
\* mapping, results[uuid] = password
RECURSIVE read_potfile_results(_, _, _)
read_potfile_results(mapping, lines, n) ==
    IF n = 0 THEN <<>>
    ELSE LET results == read_potfile_results(mapping, lines, n - 1)
             line == lines[n]
             reverse == hash_to_uuid(mapping, Len(mapping))
         IN  IF \E i \in 1..Len(line) : line[i] = ":"
             THEN IF rsplit(line)[1] \in DOMAIN reverse
                  THEN Assign(results, reverse[rsplit(line)[1]],
                              rsplit(line)[2])
                  ELSE results
             ELSE results

\* the hashes the potfile has a line for
Recovered == {pot_lines[i][1] : i \in 1..Len(pot_lines)}

\* step 1: the hashes are extracted and the batch hash file and its mapping
\* are written
CreateBatchHashFile(hash_results) ==
    /\ sinkpc = "idle"
    /\ mapping_data' = create_batch_hash_file(hash_results)
    /\ sinkpc' = "cracking"
    /\ UNCHANGED <<pot_lines, reported>>
    /\ UNCHANGED nonSinkVars

\* hashcat recovers a hash of the batch file and writes hash:password to the
\* potfile, one line per hash
HashcatRecovers(hash) ==
    /\ sinkpc = "cracking"
    /\ \E i \in 1..Len(mapping_data) : mapping_data[i].hash = hash
    /\ hash \notin Recovered
    /\ pot_lines' = Append(pot_lines, <<hash, ":", PasswordOf(hash)>>)
    /\ UNCHANGED <<sinkpc, mapping_data, reported>>
    /\ UNCHANGED nonSinkVars

\* step 3: read_potfile_results()
ReadPotfileResults ==
    /\ sinkpc = "cracking"
    /\ reported' = read_potfile_results(mapping_data, pot_lines, Len(pot_lines))
    /\ sinkpc' = "analyzed"
    /\ UNCHANGED <<mapping_data, pot_lines>>
    /\ UNCHANGED nonSinkVars

NextSink ==
    \/ \E hash_results \in HashResults : CreateBatchHashFile(hash_results)
    \/ \E hash \in Hashes : HashcatRecovers(hash)
    \/ ReadPotfileResults

SpecSink == Init /\ [][NextSink]_vars

\* the targets whose hash was recovered
RecoveredTargets ==
    {i \in 1..Len(mapping_data) : mapping_data[i].hash \in Recovered}

\* C38: every target whose hash is in the potfile is reported with its
\* password, and as many targets are reported as were recovered, also when two
\* targets have the same hash
EveryRecoveredTargetReported ==
    sinkpc = "analyzed"
    => /\ \A i \in RecoveredTargets :
             /\ mapping_data[i].uuid \in DOMAIN reported
             /\ reported[mapping_data[i].uuid] = <<PasswordOf(mapping_data[i].hash)>>
       /\ Cardinality(DOMAIN reported) = Cardinality(RecoveredTargets)

\* what the analyzer does guarantee: every reported target was recovered and
\* has its password, and a recovered target is reported unless a later target
\* has the same hash
LastTargetOfHashReported ==
    sinkpc = "analyzed"
    => /\ \A u \in DOMAIN reported :
             /\ u \in RecoveredTargets
             /\ reported[u] = <<PasswordOf(mapping_data[u].hash)>>
       /\ \A i \in RecoveredTargets :
             (\A m \in (i + 1)..Len(mapping_data) :
                  mapping_data[m].hash # mapping_data[i].hash)
             => i \in DOMAIN reported

(* --------------------------- resumed searches -------------------------- *)
\* C35: when restore_session reported success, crack_single_hash returns the
\* outcome of the resumed search: the password when the search left it in the
\* potfile, not found otherwise
RestoreOutcomePassedThrough ==
    \A i \in 1..Len(attacks) :
        attacks[i].resumed
        => attacks[i].ret = IF attacks[i].found THEN "(True, pw)"
                            ELSE "(False, '')"

(* ------------------------- engine status stream ------------------------ *)
\* the lines the engine writes: two status lines, a log line, and the line
\* that reports a cracked hash
StatusLine1 == <<"{", "progress", "}">>
StatusLine2 == <<"text", "{", "progress", "devices", "}">>
LogLine == <<"text">>
CrackedLine == <<"Cracked">>
OutputLines == {StatusLine1, StatusLine2, LogLine, CrackedLine}

\* monitor_hashcat_process(process, session_name) is called on a running
\* engine process
MonitorStart ==
    /\ monpc = "idle"
    /\ monpc' = "poll"
    /\ monproc' = "running"
    /\ UNCHANGED <<pipe, written, offered, last_status, mon_end>>
    /\ UNCHANGED nonMonVars

\* the engine writes a line to its standard output
EngineWrite(line) ==
    /\ monproc = "running"
    /\ Len(written) < MaxOutput
    /\ pipe' = Append(pipe, line)
    /\ written' = Append(written, line)
    /\ UNCHANGED <<monpc, monproc, offered, last_status, mon_end>>
    /\ UNCHANGED nonMonVars

\* the engine process exits; what it wrote stays in the pipe
EngineExits ==
    /\ monproc = "running"
    /\ monproc' = "exited"
    /\ UNCHANGED <<monpc, pipe, written, offered, last_status, mon_end>>
    /\ UNCHANGED nonMonVars

\* the loop condition: process.poll() is None and not stop_flag.is_set()
MonitorPoll ==
    /\ monpc = "poll"
    /\ IF monproc = "exited" THEN monpc' = "done" /\ mon_end' = "exited"
       ELSE IF stop_flag THEN monpc' = "done" /\ mon_end' = "stopped"
       ELSE monpc' = "read" /\ UNCHANGED mon_end
    /\ UNCHANGED <<monproc, pipe, written, offered, last_status>>
    /\ UNCHANGED nonMonVars

\* the loop body: readline() returns the next line, or '' at the end of the
\* output of an exited process, and blocks otherwise; the line is parsed and a
\* status is kept in last_status; a line with 'Cracked' ends the loop when the
\* .pot file exists; then time.sleep(0.1)
MonitorReadLine(pot_exists) ==
    /\ monpc = "read"
    /\ pipe # <<>> \/ monproc = "exited"
    /\ IF pipe = <<>>
       THEN /\ monpc' = "poll"
            /\ UNCHANGED <<pipe, offered, last_status, mon_end>>
       ELSE /\ pipe' = Tail(pipe)
            /\ offered' = Append(offered, Head(pipe))
            /\ last_status' =
                   IF parse_hashcat_status(Head(pipe)).kind = "snapshot"
                   THEN parse_hashcat_status(Head(pipe))
                   ELSE last_status
            /\ IF Head(pipe) = CrackedLine /\ pot_exists
               THEN monpc' = "done" /\ mon_end' = "cracked"
               ELSE monpc' = "poll" /\ UNCHANGED mon_end
    /\ UNCHANGED <<monproc, written>>
    /\ UNCHANGED nonMonVars

\* after the loop: process.wait(timeout=5), kill() when it timed out, return
MonitorReturn ==
    /\ monpc = "done"
    /\ monpc' = "returned"
    /\ monproc' = "exited"
    /\ UNCHANGED <<pipe, written, offered, last_status, mon_end>>
    /\ UNCHANGED nonMonVars

NextMonitor ==
    \/ MonitorStart
    \/ \E line \in OutputLines : EngineWrite(line)
    \/ EngineExits
    \/ MonitorPoll
    \/ \E pot_exists \in BOOLEAN : MonitorReadLine(pot_exists)
    \/ MonitorReturn

SpecMonitor == Init /\ [][NextMonitor]_vars

\* the status decoded from the last status line among lines, or the empty
\* status when none of them is a status line
RECURSIVE LastStatusOf(_)
LastStatusOf(lines) ==
    IF lines = <<>> THEN [kind |-> "empty"]
    ELSE IF parse_hashcat_status(lines[Len(lines)]).kind = "snapshot"
         THEN parse_hashcat_status(lines[Len(lines)])
    ELSE LastStatusOf(SubSeq(lines, 1, Len(lines) - 1))

\* C34: the stream is read line by line until the process exits: when the
\* monitor ends because the process exited, every line the engine wrote was
\* offered to the parser and the status kept is that of the last status line;
\* a line that does not parse never ends the stream
StreamOffersEveryLine ==
    /\ (monpc \in {"done", "returned"} /\ mon_end = "exited")
          => /\ offered = written
             /\ last_status = LastStatusOf(written)
    /\ (monpc \in {"done", "returned"} /\ mon_end = "cracked")
          => offered[Len(offered)] = CrackedLine

\* what the monitor does guarantee: the lines offered are the first lines
\* written, in order, and the status kept is that of the last status line
\* among them
StreamOffersPrefix ==
    /\ Len(offered) <= Len(written)
    /\ offered = SubSeq(written, 1, Len(offered))
    /\ last_status = LastStatusOf(offered)

(* ---------------------- ultimate_batch_cracker.py ---------------------- *)
\* the lines hashcat can write to the potfile, one per recovered hash
PotLines == {"hash1:pw1", "hash2:pw2"}
StepNames == {"step1", "step2", "step3"}
NoSteps == [hash_extraction |-> FALSE, gpu_cracking |-> FALSE,
            result_analysis |-> FALSE]

\* a run that goes on to the next step whatever the step returned
run_next_unchecked(step, returned) ==
    IF returned = "raised" THEN "summary"
    ELSE IF step = "step1" THEN "step2"
    ELSE IF step = "step2" THEN "step3"
    ELSE "summary"

\* run: where the workflow goes after a step returned. False from step 1 or
\* step 2 ends the run, a KeyboardInterrupt that leaves the step ends it too;
\* every way out passes the finally block
run_next(step, returned) ==
    IF returned = "True" /\ step = "step1" THEN "step2"
    ELSE IF returned = "True" /\ step = "step2" THEN "step3"
    ELSE "summary"

\* what run returns, decided when the workflow leaves the try block: False
\* after a failed step 1 or step 2, True otherwise (also after Ctrl-C)
run_result(step, returned) ==
    IF returned = "False" /\ step \in {"step1", "step2"} THEN "False" ELSE "True"

\* the part of a step that run sees: the step is recorded as called, its
\* return value is kept, and the workflow moves on
Returns(step, returned) ==
    /\ started' = Append(started, step)
    /\ step_ret' = [step_ret EXCEPT ![step] = returned]
    /\ runpc' = run_next(step, returned)
    /\ run_ret' = IF runpc' = "summary" THEN run_result(step, returned)
                  ELSE run_ret

\* python ultimate_batch_cracker.py: a new UltimateBatchCracker, then run()
\* up to the prerequisite check
Run(prerequisites) ==
    /\ runpc \in {"idle", "returned"}
    /\ runs < MaxRuns
    /\ runs' = runs + 1
    /\ steps' = NoSteps
    /\ started' = <<>>
    /\ step_ret' = [s \in StepNames |-> "none"]
    /\ summary_shown' = FALSE
    /\ runpc' = IF prerequisites THEN "step1" ELSE "returned"
    /\ run_ret' = IF prerequisites THEN "none" ELSE "False"
    /\ UNCHANGED <<batch_hash_file, potfile>>
    /\ UNCHANGED nonRunVars

\* step1_extract_hashes. outcome: "keep" (the hash file exists and is not
\* extracted again), "extracted", "failed", "interrupt" (Ctrl-C)
Step1(outcome) ==
    /\ runpc = "step1"
    /\ outcome = "keep" => batch_hash_file
    /\ IF outcome \in {"keep", "extracted"}
       THEN /\ steps' = [steps EXCEPT !.hash_extraction = TRUE]
            /\ batch_hash_file' = TRUE
            /\ Returns("step1", "True")
       ELSE /\ UNCHANGED <<steps, batch_hash_file>>
            /\ Returns("step1", IF outcome = "failed" THEN "False" ELSE "raised")
    /\ UNCHANGED <<summary_shown, potfile, runs>>
    /\ UNCHANGED nonRunVars

\* step2_gpu_cracking. outcome: "keep" (the potfile exists and the user does
\* not crack again), "declined" (no to the start question), "interrupt" (Ctrl-C
\* at a question); else the old potfile is unlinked, an empty one is created,
\* hashcat runs and writes the lines of found: "exit0", "exit1", "exit_error",
\* "interrupted" (Ctrl-C while hashcat runs), "exception"
Step2(outcome, found) ==
    /\ runpc = "step2"
    /\ outcome = "keep" => potfile.exists
    /\ IF ~batch_hash_file
       THEN /\ UNCHANGED <<steps, potfile>>
            /\ Returns("step2", "False")
       ELSE IF outcome = "keep"
       THEN /\ steps' = [steps EXCEPT !.gpu_cracking = TRUE]
            /\ UNCHANGED potfile
            /\ Returns("step2", "True")
       ELSE IF outcome \in {"declined", "interrupt"}
       THEN /\ UNCHANGED <<steps, potfile>>
            /\ Returns("step2", IF outcome = "declined" THEN "False" ELSE "raised")
       ELSE /\ potfile' = [exists |-> TRUE, lines |-> found]
            /\ IF outcome \in {"exit0", "exit1", "interrupted"}
               THEN /\ steps' = [steps EXCEPT !.gpu_cracking = TRUE]
                    /\ Returns("step2", "True")
               ELSE /\ UNCHANGED steps
                    /\ Returns("step2", "False")
    /\ UNCHANGED <<summary_shown, batch_hash_file, runs>>
    /\ UNCHANGED nonRunVars

\* step3_analyze_results. outcome: "declined" (no potfile and the user does
\* not go on), "analyzed", "failed", "interrupt" (Ctrl-C)
Step3(outcome) ==
    /\ runpc = "step3"
    /\ outcome = "declined" => ~potfile.exists
    /\ IF outcome = "analyzed"
       THEN /\ steps' = [steps EXCEPT !.result_analysis = TRUE]
            /\ Returns("step3", "True")
       ELSE /\ UNCHANGED steps
            /\ Returns("step3", IF outcome = "interrupt" THEN "raised" ELSE "False")
    /\ UNCHANGED <<summary_shown, batch_hash_file, potfile, runs>>
    /\ UNCHANGED nonRunVars

\* the finally block of run: show_final_summary, then run returns
ShowFinalSummary ==
    /\ runpc = "summary"
    /\ summary_shown' = TRUE
    /\ runpc' = "returned"
    /\ UNCHANGED <<steps, started, step_ret, run_ret, batch_hash_file, potfile, runs>>
    /\ UNCHANGED nonRunVars

NextRun ==
    \/ \E prerequisites \in BOOLEAN : Run(prerequisites)
    \/ \E outcome \in {"keep", "extracted", "failed", "interrupt"} : Step1(outcome)
    \/ \E outcome \in {"keep", "declined", "interrupt", "exit0", "exit1",
                       "exit_error", "interrupted", "exception"},
          found \in SUBSET PotLines : Step2(outcome, found)
    \/ \E outcome \in {"declined", "analyzed", "failed", "interrupt"} : Step3(outcome)
    \/ ShowFinalSummary

SpecRun == Init /\ [][NextRun]_vars

\* step was called in this run
Started(step) == \E i \in 1..Len(started) : started[i] = step

\* C32: the potfile is append-only: a line that records a recovered secret
\* stays in it through every later run and every new launch of the engine
PotfileAppendOnly ==
    [][potfile.lines \subseteq potfile'.lines]_vars

\* C33: run calls its steps in order: GPU cracking only after the hash
\* extraction returned True, the analysis only after GPU cracking returned
\* True; once the prerequisite check passed every way out shows the summary;
\* result_analysis implies gpu_cracking implies hash_extraction
StepsInOrder ==
    /\ Started("step2") => step_ret["step1"] = "True"
    /\ Started("step3") => step_ret["step2"] = "True"
    /\ Len(started) <= 3
    /\ \A i \in 1..Len(started) :
          started[i] = <<"step1", "step2", "step3">>[i]
    /\ (runpc = "returned" /\ started # <<>>) => summary_shown
    /\ steps.result_analysis => steps.gpu_cracking
    /\ steps.gpu_cracking => steps.hash_extraction

\* a run called its three steps, the analysis succeeded, and it ended with
\* the summary
RunCompletedAllSteps ==
    /\ runpc = "returned"
    /\ started = <<"step1", "step2", "step3">>
    /\ steps.result_analysis
    /\ summary_shown
    /\ run_ret = "True"

(* ---------------------- cleanup of finished sessions ------------------- *)
\* the retention windows cleanup_completed_sessions is called with, in days
\* (the default, 7, is longer than the days covered here)
KeepDays == {0, 1}

\* st_mtime after a step: a file that was opened for writing or written to in
\* the step has the time of the step
Touched ==
    [sid \in SessionIds |->
        IF disk'[sid] # disk[sid] \/ (writing' # writing /\ writing'.sid = sid)
        THEN now ELSE mtime[sid]]

\* create_session, with the modification time of the file it writes
GcCreateSession(confirm) ==
    /\ Idle
    /\ procpc = "idle"
    /\ create_session(FileList, confirm)
    /\ ret' = "session_id"
    /\ crashed' = NoCrash
    /\ mtime' = Touched
    /\ UNCHANGED <<now, last_save_time, readerSaw, pending_tasks, procpc,
                   loopVars, cutoff_time, nonLedgerGcVars>>

\* start_task, with the modification time of the file it writes
GcStartTask(file_path) ==
    /\ Idle /\ procpc = "idle"
    /\ BelowCap(file_path)
    /\ start_task(file_path)
    /\ mtime' = Touched
    /\ UNCHANGED <<now, readerSaw, crashed, pending_tasks, procpc,
                   loopVars, cutoff_time, nonLedgerGcVars>>

\* complete_task, with the modification time of the file it writes
GcCompleteTask(file_path) ==
    /\ Idle /\ procpc = "idle"
    /\ BelowCap(file_path)
    /\ complete_task(file_path, Password)
    /\ mtime' = Touched
    /\ UNCHANGED <<now, readerSaw, crashed, pending_tasks, procpc,
                   loopVars, cutoff_time, nonLedgerGcVars>>

\* json.dump writes the next part of the document, which sets the
\* modification time of the file
GcWriteChunk ==
    /\ writing # NoWrite
    /\ LET n == IF Len(writing.rest) < ChunkLen THEN Len(writing.rest) ELSE ChunkLen
       IN  /\ disk' = [disk EXCEPT ![writing.sid].data =
                                       @ \o SubSeq(writing.rest, 1, n)]
           /\ writing' = IF n = Len(writing.rest) THEN NoWrite
                         ELSE [writing EXCEPT
                                 !.rest = SubSeq(@, n + 1, Len(@))]
    /\ mtime' = [mtime EXCEPT ![writing.sid] = now]
    /\ UNCHANGED <<now, current_session, last_save_time, ret, console,
                   readerSaw, crashed, pending_tasks, procpc,
                   loopVars, cutoff_time, nonLedgerGcVars>>

\* cleanup_completed_sessions unlinks this session file: it is older than the
\* cutoff, load_session can read it, and its counters add up to total_files
\* or more
Unlinked(sid, cutoff) ==
    /\ disk[sid].exists
    /\ mtime[sid] < cutoff
    /\ load_session(sid) # NoSession
    /\ Processed(load_session(sid)) >= load_session(sid).total_files

\* cleanup_completed_sessions(keep_days)
CleanupCompletedSessions(keep_days) ==
    /\ Idle /\ procpc = "idle"
    /\ LET cutoff == now - keep_days * SecondsPerDay
       IN  /\ cutoff_time' = cutoff
           /\ disk' = [sid \in SessionIds |->
                          IF Unlinked(sid, cutoff) THEN NoFile ELSE disk[sid]]
           /\ mtime' = [sid \in SessionIds |->
                           IF Unlinked(sid, cutoff) THEN 0 ELSE mtime[sid]]
           /\ console' =
                 IF \E sid \in SessionIds : Unlinked(sid, cutoff) THEN "cleaned"
                 ELSE IF \E sid \in SessionIds :
                            mtime[sid] < cutoff /\ LoadFails(sid)
                      THEN "load_failed"
                 ELSE ""
    /\ ret' = None
    /\ UNCHANGED <<now, current_session, last_save_time, writing,
                   readerSaw, crashed, pending_tasks, procpc,
                   loopVars, nonLedgerGcVars>>

\* one process that dispatches and completes tasks over the days and cleans up
NextGc ==
    \/ \E confirm \in BOOLEAN : GcCreateSession(confirm)
    \/ \E f \in Files : GcStartTask(f)
    \/ \E f \in Files : GcCompleteTask(f)
    \/ GcWriteChunk
    \/ \E keep_days \in KeepDays : CleanupCompletedSessions(keep_days)
    \/ Tick
    \/ NextDay

SpecGc == Init /\ [][NextGc]_vars

\* the session file of sid is unlinked in this step
Deleted(sid) == disk[sid].exists /\ ~disk'[sid].exists

\* C31: a session file is deleted only when its completed, failed and skipped
\* counters add up to total_files and it was last written before the retention
\* window; a session with a pending or processing task is never deleted
CleanupOnlyFinishedOld ==
    [][\A sid \in SessionIds :
          Deleted(sid)
          => /\ mtime[sid] < cutoff_time'
             /\ Processed(load_session(sid)) = load_session(sid).total_files
             /\ \A i \in 1..Len(load_session(sid).tasks) :
                   load_session(sid).tasks[i].status \in Terminal]_vars

\* what the cleanup does guarantee: a deleted file was last written before the
\* cutoff, was readable, and its counters added up to total_files or more
CleanupOnlyCountedOld ==
    [][\A sid \in SessionIds :
          Deleted(sid)
          => /\ mtime[sid] < cutoff_time'
             /\ load_session(sid) # NoSession
             /\ Processed(load_session(sid)) >= load_session(sid).total_files]_vars

(* ------------------------- counters and statuses ----------------------- *)
\* number of tasks of s that have this status
CountStatus(s, status) ==
    Cardinality({i \in 1..Len(s.tasks) : s.tasks[i].status = status})

\* get_results_summary: the success count is the number of completed tasks,
\* the failure and skip counts are the counters of the session
get_results_summary(s) ==
    [total_files |-> s.total_files,
     successful |-> CountStatus(s, "completed"),
     failed |-> s.failed_files,
     skipped |-> s.skipped_files]

\* C36: in every state of a session the three counters equal the numbers of
\* completed, failed and skipped tasks, so the success count of
\* get_results_summary agrees with the counters reported next to it
CountersMatchStatuses ==
    /\ current_session.completed_files = CountStatus(current_session, "completed")
    /\ current_session.failed_files = CountStatus(current_session, "failed")
    /\ current_session.skipped_files = CountStatus(current_session, "skipped")
    /\ get_results_summary(current_session).successful
           = current_session.completed_files
    /\ get_results_summary(current_session).failed
           = CountStatus(current_session, "failed")
    /\ get_results_summary(current_session).skipped
           = CountStatus(current_session, "skipped")

TypeOK ==
    /\ now \in StartTime..(MaxDay * SecondsPerDay + MaxSecs)
    /\ current_session.tasks \in Seq([file_path : Files, status : Statuses,
                                      password : {None, Password},
                                      error_message : {None, ErrorMsg},
                                      attempts : 0..MaxCalls])
    /\ disk_fails \in BOOLEAN
    /\ stop_flag \in BOOLEAN
    /\ signals \in 0..MaxSignals
    /\ Len(proc) <= MaxHashes
====
